---- MODULE Spec2Model ----
(***************************************************************************)
(* Fabric A2A gateway: agent registry (in-memory and PostgreSQL), dispatch *)
(* core with its HTTP surface and streaming channel, the tool registry,    *)
(* and the Redis-stream message bus (plain reads and consumer groups).     *)
(*                                                                         *)
(* Specifications:                                                         *)
(*   SpecRegistry  register / unregister / get on both registries          *)
(*   SpecDispatch  POST /mcp/call: handle_tool_call and the SSE stream     *)
(*   SpecPlain     one inbox read in plain mode by a single receiver       *)
(*   SpecGroup     one inbox read by the consumers of one consumer group   *)
(*   FairSpecGroup SpecGroup with consumers that keep calling receive      *)
(*   SpecGateway   the call endpoint in full: traces, every operation,     *)
(*                 response shapes, tool calls                             *)
(*   SpecTools     the plugin tool registry of tools/base.py               *)
(*   SpecStore     the message bus against a store that fails              *)
(*   SpecPubSub    the pub/sub listeners of the bus and of the SDK         *)
(*   SpecSdkStream the SDK's streaming send and the callee answering it    *)
(*   SpecAtomic    re-registration against a dispatch reading the registry *)
(*   SpecSweep     health sweeps of both registries, overlapping in memory *)
(*   SpecRoute     fabric.route.preview and its fallback list              *)
(*   SpecRouting   the order of the fallback list                          *)
(*   SpecCallLog   fabric.call and the call_logs table                     *)
(*   SpecFiles     the file tools and their deny list                      *)
(*   SpecSubs      subscribe, unsubscribe and close of the message bus     *)
(*   SpecLoop      InfiniteExecutionLoop.run of aether_checkpoint          *)
(*   FairSpecLoop  SpecLoop with a coroutine that keeps running            *)
(*   SpecListen    the SDK's start_listening on a plain inbox              *)
(*   FairSpecListen SpecListen with a loop that keeps iterating            *)
(*   SpecStdio     the stdio transport beside the HTTP endpoint            *)
(***************************************************************************)
EXTENDS Integers, Sequences, FiniteSets, TLC

VARIABLES
    agents,        \* AgentRegistry.agents   : agent_id -> AgentManifest
    adapters,      \* AgentRegistry.adapters : agent_id -> adapter kind
    dbAgents,      \* PostgreSQL table agents       (rows)
    dbCaps,        \* PostgreSQL table capabilities (rows)
    dbNextId,      \* next primary key handed out for an agents row
    lastReg,       \* history: per registry and agent_id, the last register
    resp,          \* history: the last non-streamed HTTP exchange
    stream,        \* the event-stream response under observation
    inbox,         \* Redis stream agent:<id>:inbox, oldest entry first
    lastId,        \* last stream id generated by XADD for the inbox
    groups,        \* consumer groups of the inbox: name -> state
    sent,          \* history: stream ids returned by send_message
    trimmed,       \* history: stream ids removed by the MAXLEN trim
    acked,         \* history: stream ids acknowledged
    seen,          \* history: ids returned to the plain receiver, in order
    unacked,       \* history: ids returned to the plain receiver, not yet acked
    disciplined,   \* history: every plain receive began with unacked = {}
    quiet,         \* history: nothing was sent since the last plain receive
    lastRecv,      \* history: the last receive_messages call and its result
    deliveries,    \* history: id -> consumers a group read returned it to
    lastSend,      \* history: what the last send_message returned
    reply,         \* history: the last exchange at the call endpoint, in full
    uuids,         \* number of uuid.uuid4() values handed out so far
    toolRegistry,  \* BaseTool._registry  : tool_id -> tool class
    toolInstances, \* BaseTool._instances : tool_id -> tool class instantiated
    toolReply,     \* history: the last execute_tool call and its result
    busOp,         \* history: the last bus operation that met a failing store
    listeners,     \* pub/sub subscriptions: implementation -> listener state
    sdkStream,     \* the SDK's send_message_streaming call under observation
    dispatchView,  \* what the dispatch under observation has read of the registry
    clock,         \* the time, in units of the staleness threshold's scale
    endpoint,      \* agent_id -> what the agent's endpoint answers to a health ping
    sweeps,        \* the in-memory health sweeps in flight: sweep -> position
    sweepLog,      \* history: observations of the sweeps and the last visit
    preview,       \* history: the last fabric.route.preview and its answer
    routing,       \* the registry as an ordered dict, and the last preview on it
    callLog,       \* call_logs table, and what a returned fabric.call found in it
    fileCall,      \* the last call of a file tool: its path, its answer, its file accesses
    subs,          \* FabricMessageBus pub/sub: connections, self._pubsub, listener tasks
    loop,          \* InfiniteExecutionLoop.run: its position, the engine's counters, its end
    listening,     \* MessagingClient.start_listening in plain mode: inbox, handled, acknowledged
    stdio          \* the last request line of the stdio transport, its answer, the HTTP answer

vars == << agents, adapters, dbAgents, dbCaps, dbNextId, lastReg, resp, stream,
           inbox, lastId, groups, sent, trimmed, acked, seen, unacked,
           disciplined, quiet, lastRecv, deliveries, lastSend, reply, uuids,
           toolRegistry, toolInstances, toolReply, busOp,
           listeners, sdkStream, dispatchView, clock, endpoint, sweeps,
           sweepLog, preview, routing,
           callLog,
           fileCall,
           subs,
           loop,
           listening,
           stdio >>

registryVars == << agents, adapters, dbAgents, dbCaps, dbNextId, lastReg >>
memVars      == << agents, adapters >>
pgVars       == << dbAgents, dbCaps, dbNextId >>
httpVars     == << resp, stream >>
busVars      == << inbox, lastId, groups, sent, trimmed, acked, seen, unacked,
                   disciplined, quiet, lastRecv, deliveries, lastSend >>
toolVars     == << toolRegistry, toolInstances, toolReply >>
gatewayVars  == << reply, uuids >>
sweepVars    == << clock, endpoint, sweeps, sweepLog >>
lateVars     == << routing, callLog, fileCall, subs, loop, listening, stdio >>
\* the late variables an action on one of them leaves alone
routingRest  == << callLog, fileCall, subs, loop, listening, stdio >>
callLogRest  == << routing, fileCall, subs, loop, listening, stdio >>
fileCallRest == << routing, callLog, subs, loop, listening, stdio >>
subsRest     == << routing, callLog, fileCall, loop, listening, stdio >>
loopRest     == << routing, callLog, fileCall, subs, listening, stdio >>
listeningRest == << routing, callLog, fileCall, subs, loop, stdio >>
stdioRest    == << routing, callLog, fileCall, subs, loop, listening >>
extVars      == << busOp, listeners, sdkStream, dispatchView, sweepVars,
                   preview, lateVars >>
\* everything but lateVars
earlyVars    == << registryVars, httpVars, busVars, toolVars, gatewayVars,
                   busOp, listeners, sdkStream, dispatchView, sweepVars,
                   preview >>
\* what an action on one of these leaves alone
storeRest    == << listeners, sdkStream, dispatchView, sweepVars, preview,
                   lateVars >>
pubsubRest   == << busOp, sdkStream, dispatchView, sweepVars, preview,
                   lateVars >>
sdkRest      == << busOp, listeners, dispatchView, sweepVars, preview,
                   lateVars >>
viewRest     == << busOp, listeners, sdkStream, sweepVars, preview,
                   lateVars >>
sweepRest    == << busOp, listeners, sdkStream, dispatchView, preview,
                   lateVars >>
previewRest  == << busOp, listeners, sdkStream, dispatchView, sweepVars,
                   lateVars >>

(***************************************************************************)
(* Bounds                                                                  *)
(***************************************************************************)
\* new rows the agents table may receive (fresh primary keys)
MaxRows == 3
\* messages sent to the inbox
MaxSends == 4
\* the MAXLEN of the inbox, scaled down from maxlen=10000
\* (fabric_message_bus.py:161) so that trimming happens within MaxSends
StreamMaxLen == 3
\* largest count argument of a receive
MaxCount == 2
\* length of the plain receiver's recorded history beyond which it stops reading
MaxSeen == 4

(***************************************************************************)
(* Data model (server.py)                                                  *)
(***************************************************************************)
AgentIds == {"alpha", "beta"}

CapNames == {"reason", "stream_reason"}

AgentStatus == {"online", "offline", "degraded", "unknown"}

AdapterKinds == {"mcp", "agentzero"}

Capability == [name : CapNames, streaming : BOOLEAN]

\* capability lists whose names are unique within the agent
CapabilityLists ==
    {cs \in SUBSET Capability : \A c, d \in cs : c.name = d.name => c = d}

AgentManifest ==
    [agent_id : AgentIds, capabilities : CapabilityLists, status : AgentStatus]

\* Python None where a manifest is expected
NoManifest == [agent_id |-> "", capabilities |-> {}, status |-> "unknown"]

\* Python None where an adapter is expected
NoAdapter == "none"

CapNamesOf(m) == {c.name : c \in m.capabilities}

(***************************************************************************)
(* AgentRegistry (in-memory)                                               *)
(***************************************************************************)
\* d[key] = value on a Python dict
Put(d, key, value) ==
    [k \in DOMAIN d \cup {key} |-> IF k = key THEN value ELSE d[k]]

GetAgent(agent_id) ==
    IF agent_id \in DOMAIN agents THEN agents[agent_id] ELSE NoManifest

GetAdapter(agent_id) ==
    IF agent_id \in DOMAIN adapters THEN adapters[agent_id] ELSE NoAdapter

Register(manifest, adapter) ==
    /\ agents' = Put(agents, manifest.agent_id, manifest)
    /\ adapters' = Put(adapters, manifest.agent_id, adapter)
    /\ lastReg' = [lastReg EXCEPT !.mem[manifest.agent_id] =
                      [present |-> TRUE, caps |-> manifest.capabilities]]
    /\ UNCHANGED << extVars, pgVars, httpVars, busVars, gatewayVars, toolVars >>

\* RuntimeMCP.health and RuntimeAgentZero.health both answer ONLINE; the
\* RuntimeAdapter base class raises NotImplementedError
AdapterHealth(kind) == IF kind = "base" THEN "raises" ELSE "online"

\* the sweep visits every adapter; one whose health() raises becomes OFFLINE
UpdateHealthStatusOf(ags, ads) ==
    [a \in DOMAIN ags |->
        IF a \in DOMAIN ads
        THEN [ags[a] EXCEPT !.status = IF AdapterHealth(ads[a]) = "raises"
                                       THEN "offline"
                                       ELSE AdapterHealth(ads[a])]
        ELSE ags[a]]

(***************************************************************************)
(* PostgresRegistry                                                        *)
(***************************************************************************)
DbAgentRow(agent_id) == {r \in dbAgents : r.agent_id = agent_id}

\* re-registration that adds the new capability rows beside the old ones
AddCapabilities(caps, rowId, manifest) ==
    caps \cup {[agent_id |-> rowId, name |-> c.name, streaming |-> c.streaming] :
                  c \in manifest.capabilities}

\* delete the capability rows of the agent, then add the manifest's
ReplaceCapabilities(caps, rowId, manifest) ==
    {c \in caps : c.agent_id # rowId}
      \cup {[agent_id |-> rowId, name |-> c.name, streaming |-> c.streaming] :
               c \in manifest.capabilities}

PgRegister(manifest) ==
    /\ IF DbAgentRow(manifest.agent_id) # {}
       THEN LET row == CHOOSE r \in DbAgentRow(manifest.agent_id) : TRUE IN
            /\ dbAgents' = (dbAgents \ {row})
                             \cup {[row EXCEPT !.status = "online",
                                               !.last_seen_at = clock]}
            /\ dbCaps' = ReplaceCapabilities(dbCaps, row.id, manifest)
            /\ UNCHANGED dbNextId
       ELSE /\ dbNextId <= MaxRows
            /\ dbAgents' = dbAgents \cup
                  {[id |-> dbNextId, agent_id |-> manifest.agent_id,
                    status |-> "online", last_seen_at |-> clock]}
            /\ dbCaps' = ReplaceCapabilities(dbCaps, dbNextId, manifest)
            /\ dbNextId' = dbNextId + 1
    /\ lastReg' = [lastReg EXCEPT !.pg[manifest.agent_id] =
                      [present |-> TRUE, caps |-> manifest.capabilities]]
    /\ UNCHANGED << extVars, memVars, httpVars, busVars, gatewayVars, toolVars >>

\* DELETE FROM agents; the capabilities foreign key is ON DELETE CASCADE
PgUnregister(agent_id) ==
    /\ DbAgentRow(agent_id) # {}
    /\ LET row == CHOOSE r \in DbAgentRow(agent_id) : TRUE IN
        /\ dbAgents' = dbAgents \ {row}
        /\ dbCaps' = {c \in dbCaps : c.agent_id # row.id}
    /\ lastReg' = [lastReg EXCEPT !.pg[agent_id] =
                      [present |-> FALSE, caps |-> {}]]
    /\ UNCHANGED << extVars, dbNextId, memVars, httpVars, busVars, gatewayVars,
                    toolVars >>

DbAgentToManifest(row) ==
    [agent_id |-> row.agent_id,
     capabilities |-> {[name |-> c.name, streaming |-> c.streaming] :
                          c \in {x \in dbCaps : x.agent_id = row.id}},
     status |-> row.status]

PgGetAgent(agent_id) ==
    IF DbAgentRow(agent_id) = {}
    THEN NoManifest
    ELSE DbAgentToManifest(CHOOSE r \in DbAgentRow(agent_id) : TRUE)

(***************************************************************************)
(* Runtime adapters (server.py)                                            *)
(***************************************************************************)
StreamEvent(event, ok, trace_id) ==
    [event |-> event, ok |-> ok, trace_id |-> trace_id]

\* RuntimeMCP.call_stream with a token yielded after the final event
RuntimeMCPEventsFinalNotLast(trace_id) ==
    << StreamEvent("status", "absent", trace_id),
       StreamEvent("final", "true", trace_id),
       StreamEvent("token", "absent", trace_id) >>

RuntimeMCPEvents(trace_id) ==
    << StreamEvent("status", "absent", trace_id),
       StreamEvent("token", "absent", trace_id),
       StreamEvent("token", "absent", trace_id),
       StreamEvent("token", "absent", trace_id),
       StreamEvent("progress", "absent", trace_id),
       StreamEvent("token", "absent", trace_id),
       StreamEvent("final", "true", trace_id) >>

RuntimeAgentZeroEvents(trace_id) ==
    << StreamEvent("status", "absent", trace_id),
       StreamEvent("final", "true", trace_id) >>

\* adapter.call_stream(envelope): the events the adapter's generator yields
CallStreamEvents(kind, trace_id) ==
    IF kind = "agentzero"
    THEN RuntimeAgentZeroEvents(trace_id)
    ELSE RuntimeMCPEvents(trace_id)

(***************************************************************************)
(* Authentication and trace context                                        *)
(***************************************************************************)
Psk == "dev-shared-secret"

\* str(uuid.uuid4()): an id no request carries
Uuid4 == "uuid4"

\* TraceContext.create(trace_id): trace_id or str(uuid.uuid4())
TraceCreate(trace_id) == IF trace_id # "" THEN trace_id ELSE Uuid4

\* AuthService.verify_psk: the error it raises, "" when it returns a context
VerifyPsk(token) ==
    IF token = "" THEN "AUTH_DENIED"
    ELSE IF token # Psk THEN "AUTH_INVALID"
    ELSE ""

(***************************************************************************)
(* Dispatch core: FabricServer                                             *)
(***************************************************************************)
\* what the registry holds for (agent_id, capability) when a handler reads it
View(agent_id, capability) ==
    LET agent == GetAgent(agent_id) IN
    [known |-> agent # NoManifest,
     offline |-> agent.status = "offline",
     cap |-> IF \E c \in agent.capabilities : c.name = capability
             THEN IF (CHOOSE c \in agent.capabilities : c.name = capability).streaming
                  THEN "streaming" ELSE "not_streaming"
             ELSE "absent"]

Failure(code) == [ok |-> FALSE, code |-> code, calls |-> {}]

\* _handle_call: the outcome and the adapter methods it invoked
HandleCall(args) ==
    LET agent == GetAgent(args.agent_id) IN
    IF args.agent_id = "" \/ args.capability = "" \/ args.task = ""
    THEN Failure("BAD_INPUT")
    ELSE IF agent = NoManifest THEN Failure("AGENT_NOT_FOUND")
    ELSE IF agent.status = "offline" THEN Failure("AGENT_OFFLINE")
    ELSE IF args.capability \notin CapNamesOf(agent)
         THEN Failure("CAPABILITY_NOT_FOUND")
    ELSE IF GetAdapter(args.agent_id) = NoAdapter THEN Failure("INTERNAL_ERROR")
    ELSE [ok |-> TRUE, code |-> "", calls |-> {"call"}]

\* _handle_health: the sweep, then the aggregate snapshot
HandleHealth ==
    [ok |-> TRUE, code |-> "",
     calls |-> IF DOMAIN adapters # {} THEN {"health"} ELSE {}]

\* handle_tool_call: authenticate, then route by operation name
HandleToolCall(req) ==
    IF VerifyPsk(req.token) # "" THEN Failure(VerifyPsk(req.token))
    ELSE IF req.name = "fabric.call" THEN HandleCall(req)
    ELSE IF req.name = "fabric.health" THEN HandleHealth
    ELSE Failure("BAD_INPUT")

(***************************************************************************)
(* Message bus (fabric_message_bus.py): the inbox stream of one agent      *)
(***************************************************************************)
\* no receive_messages call to report
NoRecv == [count |-> 0, result |-> << >>]

Consumers == {"c1", "c2"}

GroupNames == {"g"}

Range(seq) == {seq[i] : i \in 1..Len(seq)}

Min(a, b) == IF a <= b THEN a ELSE b

\* XADD that makes room by evicting the newest entries
XAddEvictNewest(entries, id, drop) ==
    LET appended == Append(entries, id) IN
    SubSeq(appended, 1, Len(appended) - drop)

\* XADD key MAXLEN ~ n: append, then evict `drop` of the oldest entries; the
\* approximate trim evicts whole nodes only, never below n entries
XAdd(entries, id, drop) ==
    LET appended == Append(entries, id) IN
    SubSeq(appended, drop + 1, Len(appended))

\* how many entries the trim may evict when the stream holds len entries
TrimChoices(len) == 0..(IF len > StreamMaxLen THEN len - StreamMaxLen ELSE 0)

\* the first count entries with an id greater than `after`
XRead(entries, after, count) ==
    LET later == SelectSeq(entries, LAMBDA e : e > after) IN
    SubSeq(later, 1, Min(count, Len(later)))

\* a plain read that returns the newest count entries
ReadNewest(entries, count) ==
    SubSeq(entries, Len(entries) - Min(count, Len(entries)) + 1, Len(entries))

\* xread(streams={stream_key: "0"}, count=count): from the beginning
ReadPlain(entries, count) == XRead(entries, 0, count)

\* a group read that starts from the beginning of the stream
ReadGroupFromStart(entries, group, count) == XRead(entries, 0, count)

\* xreadgroup(streams={stream_key: ">"}, count=count): never-delivered entries
ReadGroup(entries, group, count) == XRead(entries, group.last_delivered, count)

\* a group created at the end of the stream (id="$")
XGroupCreateAtEnd(lastGenerated) ==
    [last_delivered |-> lastGenerated, pel |-> {}]

\* xgroup_create(stream_key, consumer_group, id="0", mkstream=True)
XGroupCreate(lastGenerated) == [last_delivered |-> 0, pel |-> {}]

\* an acknowledgement that leaves the entry in the stream
XDelNothing(entries, id) == entries

\* xdel(stream_key, stream_id)
XDel(entries, id) == SelectSeq(entries, LAMBDA e : e # id)

\* no send_message call to report
NoSend == [status |-> "", stream_id |-> 0]

\* the dictionary send_message returns
SendResult(stream_id) == [status |-> "queued", stream_id |-> stream_id]

\* send_message: XADD with the length cap (the notification published on
\* agent.<id>.new_message has no subscriber here)
SendMessage ==
    /\ lastId < MaxSends
    /\ \E drop \in TrimChoices(Len(inbox) + 1) :
        /\ inbox' = XAdd(inbox, lastId + 1, drop)
        /\ trimmed' = trimmed \cup {inbox[i] : i \in 1..drop}
    /\ lastId' = lastId + 1
    /\ sent' = sent \cup {lastId + 1}
    /\ quiet' = FALSE
    /\ lastRecv' = NoRecv
    /\ lastSend' = SendResult(lastId + 1)
    /\ UNCHANGED << extVars, registryVars, httpVars, gatewayVars, toolVars, groups,
                    acked, seen, unacked, disciplined, deliveries >>

\* receive_messages(agent_id, count), consumer_group=None
ReceivePlain(count) ==
    /\ Len(seen) < MaxSeen
    /\ LET result == ReadPlain(inbox, count) IN
        /\ seen' = seen \o result
        /\ unacked' = unacked \cup Range(result)
        /\ lastRecv' = [count |-> count, result |-> result]
    /\ disciplined' = (disciplined /\ unacked = {})
    /\ quiet' = TRUE
    /\ UNCHANGED << extVars, registryVars, httpVars, gatewayVars, toolVars, lastSend,
                    inbox, lastId, groups, sent,
                    trimmed, acked, deliveries >>

\* acknowledge_message(agent_id, stream_id), consumer_group=None, by the
\* receiver for a message it was given
AcknowledgePlain(id) ==
    /\ id \in unacked
    /\ inbox' = XDel(inbox, id)
    /\ acked' = acked \cup {id}
    /\ unacked' = unacked \ {id}
    /\ lastRecv' = NoRecv
    /\ UNCHANGED << extVars, registryVars, httpVars, gatewayVars, toolVars, lastSend,
                    lastId, groups, sent, trimmed, seen,
                    disciplined, quiet, deliveries >>

\* receive_messages(agent_id, count, consumer_group=g) by consumer c: create
\* the group if it does not exist, then read the never-delivered entries
ReceiveGroup(c, g, count) ==
    LET group == IF g \in DOMAIN groups THEN groups[g] ELSE XGroupCreate(lastId)
        result == ReadGroup(inbox, group, count)
        read == IF result = << >>
                THEN group
                ELSE [last_delivered |-> result[Len(result)],
                      pel |-> group.pel \cup
                                {[id |-> i, consumer |-> c] : i \in Range(result)}]
    IN
    /\ groups' = Put(groups, g, read)
    /\ deliveries' = [i \in DOMAIN deliveries |->
                         IF i \in Range(result)
                         THEN Append(deliveries[i], c)
                         ELSE deliveries[i]]
    /\ UNCHANGED << extVars, registryVars, httpVars, gatewayVars, toolVars, lastSend,
                    inbox, lastId, sent, trimmed, acked,
                    seen, unacked, disciplined, quiet, lastRecv >>

\* acknowledge_message(agent_id, stream_id, consumer_group=g) by the consumer
\* the entry is pending for: XACK retires it from the pending list
AcknowledgeGroup(c, g, id) ==
    /\ g \in DOMAIN groups
    /\ [id |-> id, consumer |-> c] \in groups[g].pel
    /\ groups' = [groups EXCEPT ![g].pel = {e \in @ : e.id # id}]
    /\ acked' = acked \cup {id}
    /\ UNCHANGED << extVars, registryVars, httpVars, gatewayVars, toolVars, lastSend,
                    inbox, lastId, sent, trimmed, seen,
                    unacked, disciplined, quiet, lastRecv, deliveries >>

(***************************************************************************)
(* Initial state: empty registries, no exchange yet, empty inbox           *)
(***************************************************************************)
NoRequest ==
    [name |-> "", agent_id |-> "", capability |-> "", task |-> "",
     stream |-> FALSE, trace_id |-> "", token |-> ""]

NoView == [known |-> FALSE, offline |-> FALSE, cap |-> "absent"]

NoResp ==
    [req |-> NoRequest, view |-> NoView, ok |-> FALSE, code |-> "",
     trace_id |-> "", calls |-> {}]

NoStream ==
    [state |-> "idle", req |-> NoRequest, view |-> NoView,
     events |-> << >>, frames |-> << >>, raised |-> "", trace_id |-> "",
     calls |-> {}]

NoTrace == [trace_id |-> "", span_id |-> "", parent_span_id |-> ""]

GatewayNoRequest ==
    [name |-> "", token |-> "", trace_ok |-> TRUE, trace_id |-> "",
     parent_span_id |-> "", agent_id |-> "", capability |-> "", task |-> "",
     stream |-> FALSE, timeout_ms |-> 0, tool_id |-> "", tool_outcome |-> "ok"]

NoReply ==
    [req |-> GatewayNoRequest, outcome |-> "none", keys |-> {}, ok |-> "absent",
     code |-> "", error_keys |-> {}, trace |-> NoTrace, handler |-> "",
     calls |-> {}, frames |-> << >>, registry_changed |-> FALSE, fresh |-> {},
     raised |-> ""]

NoToolReply ==
    [tool_id |-> "", capability |-> "", registered |-> FALSE,
     declared |-> FALSE, ok |-> "absent", code |-> "", invoked |-> {}]

\* no bus operation has met a failing store yet
NoBusOp ==
    [op |-> "", failed_at |-> "", outcome |-> "none", exception |-> "",
     code |-> "", result |-> "", attempts |-> 0]

\* the two pub/sub listeners: FabricMessageBus and the SDK MessagingClient
ListenerImpls == {"bus", "sdk"}

\* before subscribe: no pubsub connection, no listener task
NoListener ==
    [subscribed |-> FALSE, alive |-> FALSE, pending |-> << >>,
     consumed |-> << >>, passed |-> << >>, raised |-> 0, died_on |-> ""]

\* send_message_streaming not called yet
NoSdkStream ==
    [pc |-> "idle", reply_to |-> "", requested |-> FALSE, subscribed |-> {},
     pending |-> << >>, received |-> << >>, missed |-> << >>,
     published |-> 0, terminal_published |-> FALSE]

\* no dispatch is reading the registry
NoDispatchView ==
    [pc |-> "idle", registry |-> "", agent_id |-> "", capability |-> "",
     manifest |-> NoManifest, adapter |-> NoAdapter,
     adapter_manifest |-> NoManifest]

\* the fabric.health requests whose sweeps may be in flight together
Sweeps == {"s1", "s2"}

\* a sweep that is not running
NoSweep ==
    [pc |-> "idle", todo |-> << >>, observed |-> "", seq |-> 0, stale |-> FALSE]

\* no sweep has observed or visited an agent yet
NoSweepLog ==
    [observations |-> 0,
     seen |-> [a \in AgentIds |-> 0],
     newest |-> [a \in AgentIds |-> [seq |-> 0, status |-> ""]],
     visit |-> [registry |-> "", agent_id |-> "", stale |-> FALSE,
                invoked |-> FALSE, observed |-> "", status |-> ""]]

\* no route preview was asked for
NoPreview ==
    [agent_id |-> "", capability |-> "", registry |-> << >>, code |-> "",
     keys |-> {}, fallbacks |-> << >>]

\* an empty registry dict, no preview asked
NoRouting ==
    [agents |-> << >>,
     selected |-> [agent_id |-> "", capability |-> "", tags |-> {},
                   trust_tier |-> ""],
     fallbacks |-> << >>]

\* an empty call_logs table, no fabric.call observed
NoCallLog ==
    [rows |-> << >>,
     returned |-> [authenticated |-> FALSE, trace_id |-> "", span_id |-> "",
                   rows |-> << >>]]

\* no file tool called yet
NoFileCall == [tool |-> "", path |-> << >>, code |-> "", accesses |-> << >>]

\* a bus that never subscribed: no pub/sub connection, self._pubsub None
\* (0), self._subscribed False
NoSubs ==
    [conns |-> << >>, pubsub |-> 0, subscribed |-> FALSE, tasks |-> << >>,
     released |-> FALSE, late |-> FALSE]

\* no InfiniteExecutionLoop constructed yet
NoLoop ==
    [pc |-> "new", objective |-> "", steps_per_episode |-> 0,
     max_episodes |-> 0, adaptive |-> FALSE, steps |-> 0, pressure |-> FALSE,
     total_steps |-> 0, checkpoints |-> 0, serialisable |-> TRUE,
     final |-> FALSE, success |-> FALSE, raised |-> ""]

\* an empty inbox in front of a client that listens
NoListening ==
    [inbox |-> << >>, next |-> 1, handled |-> {}, acknowledged |-> {}]

\* no line read from stdin yet
NoStdio == [sent |-> FALSE, result |-> NoReply, http |-> NoReply]

Init ==
    /\ agents = << >>
    /\ adapters = << >>
    /\ dbAgents = {}
    /\ dbCaps = {}
    /\ dbNextId = 1
    /\ lastReg = [r \in {"mem", "pg"} |->
                     [a \in AgentIds |-> [present |-> FALSE, caps |-> {}]]]
    /\ resp = NoResp
    /\ stream = NoStream
    /\ inbox = << >>
    /\ lastId = 0
    /\ groups = << >>
    /\ sent = {}
    /\ trimmed = {}
    /\ acked = {}
    /\ seen = << >>
    /\ unacked = {}
    /\ disciplined = TRUE
    /\ quiet = TRUE
    /\ lastRecv = NoRecv
    /\ deliveries = [i \in 1..(MaxSends + 1) |-> << >>]
    /\ lastSend = NoSend
    /\ reply = NoReply
    /\ uuids = 0
    /\ toolRegistry = << >>
    /\ toolInstances = << >>
    /\ toolReply = NoToolReply
    /\ busOp = NoBusOp
    /\ listeners = [i \in ListenerImpls |-> NoListener]
    /\ sdkStream = NoSdkStream
    /\ dispatchView = NoDispatchView
    /\ clock = 0
    /\ endpoint = [a \in AgentIds |-> "online"]
    /\ sweeps = [s \in Sweeps |-> NoSweep]
    /\ sweepLog = NoSweepLog
    /\ preview = NoPreview
    /\ routing = NoRouting
    /\ callLog = NoCallLog
    /\ fileCall = NoFileCall
    /\ subs = NoSubs
    /\ loop = NoLoop
    /\ listening = NoListening
    /\ stdio = NoStdio

(***************************************************************************)
(* SpecRegistry                                                            *)
(***************************************************************************)
\* manifests handed to register in SpecRegistry
RegistryManifests == {m \in AgentManifest : m.status = "offline"}

NextRegistry ==
    \/ \E m \in RegistryManifests : Register(m, "mcp")
    \/ \E m \in RegistryManifests : PgRegister(m)
    \/ \E a \in AgentIds : PgUnregister(a)

SpecRegistry == Init /\ [][NextRegistry]_vars

\* C1: for every agent whose most recent registry operation was
\* register(a, adapter), get(a.agent_id) returns a manifest whose capability
\* set is exactly a.capabilities, in the in-memory and in the PostgreSQL
\* registry: nothing of an earlier registration remains, nothing is missing.
C1_GetReturnsRegisteredCapabilities ==
    \A a \in AgentIds :
        /\ lastReg.mem[a].present =>
              /\ GetAgent(a) # NoManifest
              /\ GetAgent(a).capabilities = lastReg.mem[a].caps
        /\ lastReg.pg[a].present =>
              /\ PgGetAgent(a) # NoManifest
              /\ PgGetAgent(a).capabilities = lastReg.pg[a].caps

\* an agent re-registered, in both registries, with a capability set that
\* drops a capability of its earlier registration
C1_Witness ==
    \E a \in AgentIds :
        /\ lastReg.mem[a].present /\ lastReg.pg[a].present
        /\ lastReg.pg[a].caps = {[name |-> "reason", streaming |-> TRUE]}
        /\ lastReg.mem[a].caps = {[name |-> "stream_reason", streaming |-> TRUE]}
        /\ \E r \in DbAgentRow(a) : r.id > 1

(***************************************************************************)
(* HTTP surface: POST /mcp/call, and the event stream it may return        *)
(***************************************************************************)
\* f"data: {json.dumps(event)}\n\n"
Frame(event) == [data |-> event]

\* mcp_call, arguments.stream falsy: handle_tool_call answers
McpCallSync(req) ==
    /\ ~req.stream
    /\ LET out == HandleToolCall(req) IN
        /\ resp' = [req |-> req,
                    view |-> View(req.agent_id, req.capability),
                    ok |-> out.ok, code |-> out.code,
                    trace_id |-> TraceCreate(req.trace_id),
                    calls |-> out.calls]
        /\ IF "health" \in out.calls
           THEN agents' = UpdateHealthStatusOf(agents, adapters)
           ELSE UNCHANGED agents
    /\ UNCHANGED << extVars, adapters, pgVars, lastReg, stream, busVars, gatewayVars,
                    toolVars >>

\* mcp_call, arguments.stream truthy: whatever the operation name, the
\* response is the event stream of _handle_call_stream unless the token fails
McpCallStream(req) ==
    /\ req.stream
    /\ stream.state \in {"idle", "done", "aborted"}
    /\ IF VerifyPsk(req.token) # ""
       THEN /\ resp' = [req |-> req,
                        view |-> View(req.agent_id, req.capability),
                        ok |-> FALSE, code |-> VerifyPsk(req.token),
                        trace_id |-> TraceCreate(""), calls |-> {}]
            /\ UNCHANGED stream
       ELSE /\ stream' = [NoStream EXCEPT
                            !.state = "open", !.req = req,
                            !.trace_id = TraceCreate("")]
            /\ UNCHANGED resp
    /\ UNCHANGED << extVars, registryVars, busVars, gatewayVars, toolVars >>

\* _handle_call_stream up to its first yield: look up agent and adapter,
\* build the envelope, start adapter.call_stream
StreamBegin ==
    /\ stream.state = "open"
    /\ LET agent == GetAgent(stream.req.agent_id)
           adapter == GetAdapter(stream.req.agent_id)
           view == View(stream.req.agent_id, stream.req.capability) IN
        IF agent = NoManifest
        THEN stream' = [stream EXCEPT !.state = "aborted", !.view = view,
                                      !.raised = "AGENT_NOT_FOUND"]
        ELSE IF adapter = NoAdapter
        THEN stream' = [stream EXCEPT !.state = "aborted", !.view = view,
                                      !.raised = "INTERNAL_ERROR"]
        ELSE LET events == CallStreamEvents(adapter, stream.trace_id) IN
             stream' = [stream EXCEPT !.state = "streaming", !.view = view,
                                      !.events = events,
                                      !.frames = << Frame(events[1]) >>,
                                      !.calls = {"call_stream"}]
    /\ UNCHANGED << extVars, registryVars, resp, busVars, gatewayVars, toolVars >>

\* a relay that buffers: the frame sent is the one for the event after next
\* when there is one, so an event is dropped
StreamNextDropping ==
    /\ stream.state = "streaming"
    /\ Len(stream.frames) < Len(stream.events)
    /\ stream' = [stream EXCEPT
                    !.frames =
                        IF Len(@) + 2 <= Len(stream.events)
                        THEN Append(@, Frame(stream.events[Len(@) + 2]))
                        ELSE Append(@, Frame(stream.events[Len(@) + 1]))]
    /\ UNCHANGED << extVars, registryVars, resp, busVars, gatewayVars, toolVars >>

\* async for event in adapter.call_stream(envelope): yield the next frame
StreamNext ==
    /\ stream.state = "streaming"
    /\ Len(stream.frames) < Len(stream.events)
    /\ stream' = [stream EXCEPT
                    !.frames = Append(@, Frame(stream.events[Len(@) + 1]))]
    /\ UNCHANGED << extVars, registryVars, resp, busVars, gatewayVars, toolVars >>

\* the adapter's generator is exhausted: the response body ends
StreamEnd ==
    /\ stream.state = "streaming"
    /\ Len(stream.frames) = Len(stream.events)
    /\ stream' = [stream EXCEPT !.state = "done"]
    /\ UNCHANGED << extVars, registryVars, resp, busVars, gatewayVars, toolVars >>

(***************************************************************************)
(* SpecDispatch                                                            *)
(***************************************************************************)
\* manifests handed to register in SpecDispatch
DispatchManifests ==
    {m \in AgentManifest :
        /\ m.agent_id = "alpha"
        /\ m.status \in {"online", "offline"}
        /\ m.capabilities \in
              { {},
                {[name |-> "reason", streaming |-> FALSE]},
                {[name |-> "reason", streaming |-> TRUE]},
                {[name |-> "reason", streaming |-> FALSE],
                 [name |-> "stream_reason", streaming |-> TRUE]} }}

\* requests posted to /mcp/call in SpecDispatch: well-formed calls, a call to
\* an agent nobody registered, calls without or with a wrong token, a call
\* without a task, the health operation and a name outside the operation set
DispatchRequests ==
    [name : {"fabric.call"}, agent_id : {"alpha"}, capability : CapNames,
     task : {"hi"}, stream : BOOLEAN, trace_id : {"t1"}, token : {Psk}]
    \cup [name : {"fabric.call"}, agent_id : {"alpha"},
          capability : {"reason"}, task : {"hi"}, stream : {FALSE},
          trace_id : {""}, token : {Psk}]
    \cup [name : {"fabric.call"}, agent_id : {"beta"},
          capability : {"reason"}, task : {"hi"}, stream : BOOLEAN,
          trace_id : {"t1"}, token : {Psk}]
    \cup [name : {"fabric.call"}, agent_id : {"alpha"},
          capability : {"reason"}, task : {"hi"}, stream : BOOLEAN,
          trace_id : {"t1"}, token : {"", "wrong"}]
    \cup [name : {"fabric.call"}, agent_id : {"alpha"},
          capability : {"reason"}, task : {""}, stream : {FALSE},
          trace_id : {"t1"}, token : {Psk}]
    \cup [name : {"fabric.health", "fabric.unknown"}, agent_id : {""},
          capability : {""}, task : {""}, stream : {FALSE},
          trace_id : {""}, token : {Psk}]

NextDispatch ==
    \/ \E m \in DispatchManifests, k \in AdapterKinds : Register(m, k)
    \/ \E req \in DispatchRequests : McpCallSync(req)
    \/ \E req \in DispatchRequests : McpCallStream(req)
    \/ StreamBegin
    \/ StreamNext
    \/ StreamEnd

SpecDispatch == Init /\ [][NextDispatch]_vars

\* the request was authenticated and names an operation's required arguments
Authenticated(req) == VerifyPsk(req.token) = ""

NamesTarget(req) ==
    req.name = "fabric.call" /\ req.agent_id # "" /\ req.capability # ""
      /\ (req.stream \/ req.task # "")

\* the generator of the event stream has read the registry
StreamDispatched == stream.state \in {"streaming", "done", "aborted"}

\* C2: an authenticated fabric.call that names a registered agent and a
\* capability absent from its manifest at dispatch time ends with ok:false,
\* error.code CAPABILITY_NOT_FOUND and the request's trace_id, and no adapter
\* method is invoked; stated for the non-streamed and the streamed exchange,
\* and only for an agent that is not offline, where no other rejection applies.
C2_UnknownCapabilityIsTerminal ==
    /\ ( /\ Authenticated(resp.req) /\ NamesTarget(resp.req)
         /\ resp.view.known /\ resp.view.cap = "absent"
         /\ ~resp.view.offline )
       => /\ ~resp.ok
          /\ resp.code = "CAPABILITY_NOT_FOUND"
          /\ resp.req.trace_id # "" => resp.trace_id = resp.req.trace_id
          /\ resp.calls = {}
    /\ ( /\ StreamDispatched /\ NamesTarget(stream.req)
         /\ stream.view.known /\ stream.view.cap = "absent"
         /\ ~stream.view.offline )
       => /\ stream.raised = "CAPABILITY_NOT_FOUND"
          /\ stream.req.trace_id # "" => stream.trace_id = stream.req.trace_id
          /\ stream.calls = {}

\* C3: a fabric.call, non-streamed or with stream=true, whose target agent is
\* offline at dispatch time fails with AGENT_OFFLINE, and neither adapter.call
\* nor adapter.call_stream is invoked.
C3_OfflineRejectedOnEveryPath ==
    /\ ( /\ Authenticated(resp.req) /\ NamesTarget(resp.req)
         /\ resp.view.known /\ resp.view.offline )
       => /\ ~resp.ok
          /\ resp.code = "AGENT_OFFLINE"
          /\ resp.calls = {}
    /\ ( /\ StreamDispatched /\ NamesTarget(stream.req)
         /\ stream.view.known /\ stream.view.offline )
       => /\ stream.raised = "AGENT_OFFLINE"
          /\ stream.calls = {}

\* C4: a fabric.call with stream=true whose capability declares
\* streaming=false fails with BAD_INPUT, no event stream is produced and
\* adapter.call_stream is not invoked; frames are streamed only for a
\* capability that declares streaming=true.
C4_StreamOnlyWhenCapabilityStreams ==
    /\ ( /\ StreamDispatched /\ NamesTarget(stream.req)
         /\ stream.view.known /\ stream.view.cap = "not_streaming" )
       => /\ stream.raised = "BAD_INPUT"
          /\ stream.calls = {}
          /\ stream.frames = << >>
    /\ stream.frames # << >> => stream.view.cap = "streaming"

\* terminal events of the streaming channel: error, or final (ok or not)
Terminal(frame) == frame.data.event \in {"final", "error"}

TerminalPositions(frames) == {i \in 1..Len(frames) : Terminal(frames[i])}

\* C5: in a streamed fabric.call on a capability that declares
\* streaming=true, for either adapter kind, no frame follows a terminal event
\* and at most one terminal event is delivered; when the stream has ended the
\* frames are all the adapter's events, exactly one of them is terminal and it
\* is the last one.
C5_ExactlyOneTerminalEventLast ==
    ( /\ stream.state \in {"streaming", "done"}
      /\ stream.view.known /\ stream.view.cap = "streaming" )
    => /\ TerminalPositions(stream.frames) \subseteq {Len(stream.frames)}
       /\ Len(stream.frames) <= Len(stream.events)
       /\ stream.state = "done" =>
             /\ Len(stream.frames) = Len(stream.events)
             /\ TerminalPositions(stream.frames) = {Len(stream.frames)}

\* a finished RuntimeMCP stream on a streaming capability: six non-terminal
\* frames, then final
C5_Witness ==
    /\ stream.state = "done"
    /\ stream.view.known /\ stream.view.cap = "streaming"
    /\ GetAdapter(stream.req.agent_id) = "mcp"
    /\ Len(stream.frames) = 7
    /\ Terminal(stream.frames[7])

\* a finished RuntimeAgentZero stream on a streaming capability
C5_WitnessAgentZero ==
    /\ stream.state = "done"
    /\ stream.view.known /\ stream.view.cap = "streaming"
    /\ Len(stream.frames) = 2

(***************************************************************************)
(* SpecPlain, SpecGroup, FairSpecGroup                                     *)
(***************************************************************************)
NextPlain ==
    \/ SendMessage
    \/ \E n \in 1..MaxCount : ReceivePlain(n)
    \/ \E i \in 1..MaxSends : AcknowledgePlain(i)

SpecPlain == Init /\ [][NextPlain]_vars

GroupReceives == \E c \in Consumers, n \in 1..MaxCount : ReceiveGroup(c, "g", n)

NextGroup ==
    \/ SendMessage
    \/ \E c \in Consumers, n \in 1..MaxCount : ReceiveGroup(c, "g", n)
    \/ \E c \in Consumers, i \in 1..MaxSends : AcknowledgeGroup(c, "g", i)

SpecGroup == Init /\ [][NextGroup]_vars

\* the consumers of the group keep calling receive; nothing obliges a
\* consumer to acknowledge, nor the sender to send
FairSpecGroup == Init /\ [][NextGroup]_vars /\ WF_vars(GroupReceives)

StrictlyIncreasing(seq) ==
    \A i, j \in 1..Len(seq) : i < j => seq[i] < seq[j]

InInbox(id) == id \in Range(inbox)

\* the oldest n records of the inbox, in send order
Oldest(n) == [i \in 1..Min(n, Len(inbox)) |-> inbox[i]]

\* C6 as stated: whatever the interleaving of sends and plain receives, the
\* single receiver observes every message exactly once and in send order.
C6_ObservedExactlyOnceInOrder == StrictlyIncreasing(seen)

\* C6 as amended: every plain receive returns the oldest min(count, length)
\* records of the inbox in send order, so a record is returned again until it
\* is acknowledged; a receiver that acknowledges every record it was given
\* before its next receive observes each record once, in send order, and has
\* observed every sent record that the length cap did not trim once the
\* inbox is empty.
C6_PlainReadOldestFirstUntilAcked ==
    /\ lastRecv.count > 0 => lastRecv.result = Oldest(lastRecv.count)
    /\ disciplined => StrictlyIncreasing(seen)
    /\ (disciplined /\ unacked = {} /\ inbox = << >>)
          => sent \subseteq (Range(seen) \cup trimmed)

\* the receiver, acknowledging as it goes, has observed three messages in
\* send order, the last of them sent after the first was acknowledged
C6_Witness ==
    /\ disciplined
    /\ seen = << 1, 2, 3 >>
    /\ unacked = {}
    /\ inbox = << >>

\* a receive that returned a record it had already returned
C6_WitnessRepeat ==
    /\ ~disciplined
    /\ Len(seen) >= 2 /\ seen[1] = seen[2]
    /\ lastRecv.count > 0 /\ lastRecv.result # << >>

\* C7: no message is returned by two receive calls of the consumer group,
\* whichever consumers make them, and only sent messages are returned.
C7_GroupDeliversToOneConsumer ==
    \A i \in DOMAIN deliveries :
        /\ Len(deliveries[i]) <= 1
        /\ deliveries[i] # << >> => i \in sent

\* two consumers of the group each received a message, a third is pending
\* for one of them after the other was acknowledged
C7_Witness ==
    /\ deliveries[1] = << "c1" >>
    /\ deliveries[2] = << "c2" >>
    /\ deliveries[3] # << >>
    /\ 1 \in acked

Pending(id) == \E g \in DOMAIN groups : \E e \in groups[g].pel : e.id = id

\* C8: a message delivered to a consumer of the group and never acknowledged
\* is eventually delivered again to a consumer of the group that keeps
\* calling receive.
C8_UnackedIsRedelivered ==
    \A i \in 1..MaxSends :
        Pending(i) ~> (i \in acked \/ Len(deliveries[i]) >= 2)

\* C9 as stated: every message sent to the inbox is eventually returned to
\* some receiver of the group.
C9_EverySentIsDelivered ==
    \A i \in 1..MaxSends : (i \in sent) ~> (deliveries[i] # << >>)

\* C9 as amended: every message sent to the inbox, also one sent before the
\* group was created, is eventually returned to some receiver of the group
\* unless the length cap trimmed it from the inbox before it was read.
C9_EverySentIsDeliveredOrTrimmed ==
    \A i \in 1..MaxSends :
        (i \in sent) ~> (deliveries[i] # << >> \/ i \in trimmed)

\* the group was created after the first messages were sent and both
\* consumers were given messages: the received ids are the sent ids
C9_Witness ==
    /\ sent = 1..3
    /\ trimmed = {}
    /\ deliveries[1] = << "c1" >>
    /\ deliveries[2] = << "c1" >>
    /\ deliveries[3] = << "c2" >>

\* C10 as stated: a returned message stays in the inbox until acknowledged,
\* an acknowledged one is gone and no receive returns it, and once every
\* received message is acknowledged and nothing new was sent a follow-up
\* receive returns no messages.
C10_AckDeletesAndDrains ==
    /\ \A i \in unacked : InInbox(i)
    /\ \A i \in acked : ~InInbox(i) /\ i \notin Range(lastRecv.result)
    /\ (quiet /\ seen # << >> /\ unacked = {})
          => ReadPlain(inbox, MaxCount) = << >>

\* C10 as amended: a returned message stays in the inbox until it is
\* acknowledged or trimmed by the length cap, an acknowledged one is gone and
\* no receive returns it, and once every message sent was acknowledged or
\* trimmed a follow-up receive returns no messages.
C10_AckDeletesAndDrainsWhenAllAcked ==
    /\ \A i \in unacked : InInbox(i) \/ i \in trimmed
    /\ \A i \in acked : ~InInbox(i) /\ i \notin Range(lastRecv.result)
    /\ (sent \subseteq (acked \cup trimmed))
          => ReadPlain(inbox, MaxCount) = << >> /\ lastRecv.result = << >>

\* messages were received and acknowledged, and the follow-up receive
\* returned nothing
C10_Witness ==
    /\ acked = {1, 2}
    /\ sent = {1, 2}
    /\ lastRecv.count > 0
    /\ lastRecv.result = << >>

(***************************************************************************)
(* The call endpoint in full: trace context, every operation of            *)
(* handle_tool_call, and the shape of what each handler returns            *)
(***************************************************************************)
\* uuid.uuid4() values one behaviour may draw
MaxUuids == 6

\* args.get("timeout_ms", 60000)
DefaultTimeoutMs == 60000

\* the n-th str(uuid.uuid4()): unlike every other one and every id a client
\* sends
Uuid(n) == "uuid4-" \o ToString(n)

\* TraceContext.create(trace_id, parent_span_id) after n uuids were drawn
TraceContextCreate(trace_id, parent_span_id, n) ==
    IF trace_id # ""
    THEN [trace_id |-> trace_id, span_id |-> Uuid(n + 1),
          parent_span_id |-> parent_span_id]
    ELSE [trace_id |-> Uuid(n + 1), span_id |-> Uuid(n + 2),
          parent_span_id |-> parent_span_id]

\* how many uuids TraceContext.create(trace_id, ...) draws
UuidsDrawn(trace_id) == IF trace_id # "" THEN 1 ELSE 2

\* keys of the error member built by FabricError.to_dict
ErrorKeys == {"code", "message", "details"}

\* BUILTIN_TOOLS: tool_id -> method name of its (class, method) entry
BuiltinTools == [t \in {"math.calculate", "system.datetime"} |->
                    IF t = "math.calculate" THEN "eval" ELSE "now"]

\* tool_id.split("."): the agent references "agent.<agent_id>.<capability>"
AgentRefOf ==
    [t \in {"agent.alpha.reason"} |->
        [agent_id |-> "alpha", capability |-> "reason"]]

\* tool_name.split("."): fabric.tool.<category>.<action> names and the
\* tool_id "<category>.<action>" they stand for
DirectToolOf ==
    [n \in {"fabric.tool.math.calculate", "fabric.tool.nope.nothing"} |->
        IF n = "fabric.tool.math.calculate" THEN "math.calculate"
        ELSE "nope.nothing"]

\* what a handler hands back to handle_tool_call: a dictionary (its keys, its
\* ok member, the code and keys of its error member), or an exception
Result(keys, ok, code, error_keys, calls) ==
    [kind |-> "result", keys |-> keys, ok |-> ok, code |-> code,
     error_keys |-> error_keys, calls |-> calls]

RaiseFabricError(code) ==
    [kind |-> "FabricError", keys |-> {}, ok |-> "absent", code |-> code,
     error_keys |-> {}, calls |-> {}]

RaiseException(name, calls) ==
    [kind |-> "Exception", keys |-> {}, ok |-> "absent", code |-> name,
     error_keys |-> {}, calls |-> calls]

\* adapter.call(envelope): RuntimeMCP and RuntimeAgentZero answer
\* {ok, trace, result} at once, whatever envelope.target.timeout_ms is; the
\* RuntimeAdapter base class raises NotImplementedError
AdapterCall(kind, timeout_ms) ==
    IF kind = "base"
    THEN RaiseException("NotImplementedError", {"call"})
    ELSE Result({"ok", "trace", "result"}, "true", "", {}, {"call"})

\* _handle_call as handle_tool_call sees it
HandleCallFull(args) ==
    LET out == HandleCall(args) IN
    IF ~out.ok THEN RaiseFabricError(out.code)
    ELSE AdapterCall(GetAdapter(args.agent_id), args.timeout_ms)

\* _handle_agent_list: {"agents": [...]}
HandleAgentList(args) == Result({"agents"}, "absent", "", {}, {})

\* _handle_agent_describe
HandleAgentDescribe(args) ==
    IF args.agent_id = "" THEN RaiseFabricError("BAD_INPUT")
    ELSE IF GetAgent(args.agent_id) = NoManifest
         THEN RaiseFabricError("AGENT_NOT_FOUND")
    ELSE Result({"agent"}, "absent", "", {}, {})

\* _handle_route_preview
HandleRoutePreview(args) ==
    IF args.agent_id = "" \/ args.capability = ""
    THEN RaiseFabricError("BAD_INPUT")
    ELSE IF GetAgent(args.agent_id) = NoManifest
         THEN RaiseFabricError("AGENT_NOT_FOUND")
    ELSE Result({"selected_runtime", "policy", "fallbacks"}, "absent", "",
                {}, {})

\* _handle_health: the snapshot it returns
HandleHealthFull ==
    Result({"ok", "registry", "runtimes", "tools", "version",
            "uptime_seconds"}, "true", "", {}, HandleHealth.calls)

\* _handle_tool_list: {"tools": [...], "count": n}
HandleToolList(args) == Result({"tools", "count"}, "absent", "", {}, {})

\* what a tool method may do once invoked
ToolOutcomes == {"ok", "ToolError", "Exception"}

\* ToolResult.to_dict(): {ok, result, error}
ToolResultDict(ok, code, error_keys, calls) ==
    Result({"ok", "result", "error"}, ok, code, error_keys, calls)

\* builtin_tools.execute_tool: the method of the BUILTIN_TOOLS entry is
\* invoked whatever the capability argument is
ExecuteBuiltinTool(tool_id, capability, outcome) ==
    IF tool_id \notin DOMAIN BuiltinTools
    THEN RaiseException("ToolError", {})
    ELSE LET method == {tool_id \o ":" \o BuiltinTools[tool_id]} IN
         IF outcome = "ok" THEN ToolResultDict("true", "", {}, method)
         ELSE IF outcome = "ToolError"
              THEN ToolResultDict("false", "TOOL_FAILED", ErrorKeys, method)
         ELSE ToolResultDict("false", "EXECUTION_ERROR",
                             {"code", "message"}, method)

\* result["trace"] = trace.to_dict()
WithTrace(out) ==
    IF out.kind = "result" THEN [out EXCEPT !.keys = @ \cup {"trace"}] ELSE out

\* _handle_tool_call (fabric.tool.call)
HandleToolCallOperation(args) ==
    IF args.tool_id = "" THEN RaiseFabricError("BAD_INPUT")
    ELSE IF args.tool_id \in DOMAIN BuiltinTools
            \/ args.tool_id \in DOMAIN toolRegistry
         THEN WithTrace(ExecuteBuiltinTool(args.tool_id, args.capability,
                                           args.tool_outcome))
    ELSE IF args.tool_id \in DOMAIN AgentRefOf
         THEN HandleCallFull([args EXCEPT
                                !.agent_id = AgentRefOf[args.tool_id].agent_id,
                                !.capability =
                                    AgentRefOf[args.tool_id].capability,
                                !.timeout_ms = DefaultTimeoutMs])
    ELSE RaiseFabricError("BAD_INPUT")

\* _handle_tool_describe (fabric.tool.describe)
HandleToolDescribe(args) ==
    IF args.tool_id = "" THEN RaiseFabricError("BAD_INPUT")
    ELSE IF args.tool_id \in DOMAIN BuiltinTools
         THEN Result({"tool"}, "absent", "", {}, {})
    ELSE IF /\ args.tool_id \in DOMAIN AgentRefOf
            /\ GetAgent(AgentRefOf[args.tool_id].agent_id) # NoManifest
         THEN Result({"tool"}, "absent", "", {}, {})
    ELSE RaiseFabricError("BAD_INPUT")

\* _handle_builtin_tool_direct (fabric.tool.<category>.<action>)
HandleBuiltinToolDirect(tool_name, args) ==
    LET tool_id == DirectToolOf[tool_name] IN
    IF tool_id \in DOMAIN BuiltinTools \/ tool_id \in DOMAIN toolRegistry
    THEN WithTrace(ExecuteBuiltinTool(
                       tool_id,
                       IF tool_id \in DOMAIN BuiltinTools
                       THEN BuiltinTools[tool_id] ELSE "",
                       args.tool_outcome))
    ELSE RaiseFabricError("BAD_INPUT")

\* the if/elif chain of handle_tool_call: the handler the name selects and
\* what it hands back
Route(req) ==
    IF req.name = "fabric.agent.list"
    THEN [handler |-> "_handle_agent_list", out |-> HandleAgentList(req)]
    ELSE IF req.name = "fabric.agent.describe"
    THEN [handler |-> "_handle_agent_describe",
          out |-> HandleAgentDescribe(req)]
    ELSE IF req.name = "fabric.call"
    THEN [handler |-> "_handle_call", out |-> HandleCallFull(req)]
    ELSE IF req.name = "fabric.route.preview"
    THEN [handler |-> "_handle_route_preview",
          out |-> HandleRoutePreview(req)]
    ELSE IF req.name = "fabric.health"
    THEN [handler |-> "_handle_health", out |-> HandleHealthFull]
    ELSE IF req.name = "fabric.tool.list"
    THEN [handler |-> "_handle_tool_list", out |-> HandleToolList(req)]
    ELSE IF req.name = "fabric.tool.call"
    THEN [handler |-> "_handle_tool_call",
          out |-> HandleToolCallOperation(req)]
    ELSE IF req.name = "fabric.tool.describe"
    THEN [handler |-> "_handle_tool_describe",
          out |-> HandleToolDescribe(req)]
    ELSE IF req.name \in DOMAIN DirectToolOf
    THEN [handler |-> "_handle_builtin_tool_direct",
          out |-> HandleBuiltinToolDirect(req.name, req)]
    ELSE [handler |-> "", out |-> RaiseFabricError("BAD_INPUT")]

\* FabricError(code).to_dict(trace) as the reply of one exchange
ErrorReply(req, code, trace, handler, calls, fresh) ==
    [NoReply EXCEPT
        !.req = req, !.outcome = "returned", !.keys = {"ok", "error", "trace"},
        !.ok = "false", !.code = code, !.error_keys = ErrorKeys,
        !.trace = trace, !.handler = handler, !.calls = calls,
        !.fresh = fresh]

\* the uuids drawn by one TraceContext.create after n were drawn
FreshUuids(trace_id, n) == {Uuid(n + i) : i \in 1..UuidsDrawn(trace_id)}

\* handle_tool_call(tool_name, arguments, auth_token) after n uuids were
\* drawn. The trace context is built before the try block: arguments whose
\* "trace" member is not an object make .get raise AttributeError there.
HandleToolCallFull(req, n) ==
    IF ~req.trace_ok
    THEN [NoReply EXCEPT !.req = req, !.outcome = "raised",
                         !.raised = "AttributeError"]
    ELSE
    LET trace == TraceContextCreate(req.trace_id, req.parent_span_id, n)
        fresh == FreshUuids(req.trace_id, n)
        auth == VerifyPsk(req.token)
        routed == Route(req)
        out == routed.out
    IN
    IF auth # "" THEN ErrorReply(req, auth, trace, "", {}, fresh)
    ELSE IF out.kind = "result"
    THEN [NoReply EXCEPT
            !.req = req, !.outcome = "returned", !.keys = out.keys,
            !.ok = out.ok, !.code = out.code, !.error_keys = out.error_keys,
            !.trace = IF "trace" \in out.keys THEN trace ELSE NoTrace,
            !.handler = routed.handler, !.calls = out.calls, !.fresh = fresh]
    ELSE IF out.kind = "FabricError"
    THEN ErrorReply(req, out.code, trace, routed.handler, out.calls, fresh)
    ELSE [ErrorReply(req, "INTERNAL_ERROR", trace, routed.handler, out.calls,
                     fresh) EXCEPT !.raised = out.code]

\* mcp_call with arguments.stream falsy: handle_tool_call answers
GatewayCall(req) ==
    /\ ~req.stream
    /\ uuids + 2 <= MaxUuids
    /\ LET r == HandleToolCallFull(req, uuids)
           swept == IF "health" \in r.calls
                    THEN UpdateHealthStatusOf(agents, adapters)
                    ELSE agents
       IN
        /\ agents' = swept
        /\ reply' = [r EXCEPT !.registry_changed = (swept # agents)]
        /\ uuids' = uuids + Cardinality(r.fresh)
    /\ UNCHANGED << extVars, adapters, pgVars, lastReg, httpVars, busVars, toolVars >>

\* mcp_call with arguments.stream truthy, the generator of
\* _handle_call_stream consumed to its end: a fresh trace whatever the request
\* carries, the token check, then the frames of adapter.call_stream or the
\* exception that ends the response without a frame
GatewayCallStream(req) ==
    /\ req.stream
    /\ uuids + 2 <= MaxUuids
    /\ LET trace == TraceContextCreate("", "", uuids)
           fresh == FreshUuids("", uuids)
           auth == VerifyPsk(req.token)
           agent == GetAgent(req.agent_id)
           adapter == GetAdapter(req.agent_id)
           opened == [NoReply EXCEPT !.req = req, !.outcome = "stream",
                                     !.handler = "_handle_call_stream",
                                     !.fresh = fresh]
       IN
        reply' =
            IF auth # "" THEN ErrorReply(req, auth, trace, "", {}, fresh)
            ELSE IF agent = NoManifest
            THEN [opened EXCEPT !.raised = "AGENT_NOT_FOUND"]
            ELSE IF adapter = NoAdapter
            THEN [opened EXCEPT !.raised = "INTERNAL_ERROR"]
            ELSE IF adapter = "base"
            THEN [opened EXCEPT !.raised = "TypeError",
                                !.calls = {"call_stream"}]
            ELSE LET events == CallStreamEvents(adapter, trace.trace_id) IN
                 [opened EXCEPT
                    !.frames = [i \in 1..Len(events) |-> Frame(events[i])],
                    !.keys = {"ok", "result", "trace"}, !.ok = "true",
                    !.trace = trace, !.calls = {"call_stream"}]
    /\ uuids' = uuids + 2
    /\ UNCHANGED << extVars, registryVars, httpVars, busVars, toolVars >>

(***************************************************************************)
(* SpecGateway                                                             *)
(***************************************************************************)
\* the operation names of the dispatch table (spec 4.4)
MessageOperations ==
    {"fabric.message.send", "fabric.message.receive",
     "fabric.message.acknowledge", "fabric.message.publish",
     "fabric.message.queue_status"}

ClosedOperationSet ==
    {"fabric.agent.list", "fabric.agent.describe", "fabric.call",
     "fabric.route.preview", "fabric.health", "fabric.tool.list",
     "fabric.tool.describe", "fabric.tool.call"}
    \cup DOMAIN DirectToolOf \cup MessageOperations

\* manifests and adapters handed to register in SpecGateway
GatewayManifests ==
    {m \in AgentManifest :
        /\ m.agent_id = "alpha"
        /\ m.status \in {"online", "offline"}
        /\ m.capabilities = {[name |-> "reason", streaming |-> FALSE]}}

GatewayAdapters == {"mcp", "base"}

\* an authenticated, non-streamed fabric.call of alpha.reason with a trace
BaseRequest ==
    [name |-> "fabric.call", token |-> Psk, trace_ok |-> TRUE,
     trace_id |-> "t1", parent_span_id |-> "p1", agent_id |-> "alpha",
     capability |-> "reason", task |-> "hi", stream |-> FALSE,
     timeout_ms |-> DefaultTimeoutMs, tool_id |-> "math.calculate",
     tool_outcome |-> "ok"]

\* requests posted to the call endpoint in SpecGateway: every operation name
\* and a name outside the set under each kind of token; the trace member
\* absent, partial, complete and not an object; streamed calls; calls that
\* miss an argument, name another agent or capability, or set timeout_ms
\* to 0; tool calls by tool_id, capability and what the tool method does;
\* other operations with stream set
GatewayRequests ==
    {[BaseRequest EXCEPT !.name = n, !.token = t] :
        n \in ClosedOperationSet \cup {"fabric.bogus"},
        t \in {Psk, "", "wrong"}}
    \cup {[BaseRequest EXCEPT !.name = n, !.token = t, !.trace_ok = k,
                              !.trace_id = i, !.parent_span_id = q] :
            n \in {"fabric.call", "fabric.agent.list"}, t \in {Psk, ""},
            k \in BOOLEAN, i \in {"", "t1"}, q \in {"", "p1"}}
    \cup {[BaseRequest EXCEPT !.stream = TRUE, !.token = t, !.trace_id = i,
                              !.agent_id = a] :
            t \in {Psk, "", "wrong"}, i \in {"", "t1"},
            a \in {"alpha", "beta"}}
    \cup {[BaseRequest EXCEPT !.name = n, !.stream = TRUE, !.agent_id = a] :
            n \in {"fabric.health", "fabric.agent.list"},
            a \in {"alpha", ""}}
    \cup {[BaseRequest EXCEPT !.agent_id = a, !.capability = c, !.task = k,
                              !.timeout_ms = ms] :
            a \in {"alpha", "beta"}, c \in {"reason", "other"},
            k \in {"hi", ""}, ms \in {0, DefaultTimeoutMs}}
    \cup {[BaseRequest EXCEPT !.name = "fabric.tool.call", !.tool_id = id,
                              !.capability = c, !.tool_outcome = o] :
            id \in {"", "math.calculate", "notification.send",
                    "nope.nothing", "agent.alpha.reason"},
            c \in {"eval", "send", "bogus"}, o \in ToolOutcomes}
    \cup {[BaseRequest EXCEPT !.name = n, !.tool_outcome = o] :
            n \in DOMAIN DirectToolOf, o \in ToolOutcomes}

\* the exchange under observation answered a request
Answered == reply.outcome # "none"

\* FabricError.to_dict: {ok:false, error:{code, message, details}, trace}
ErrorShape ==
    /\ reply.keys = {"ok", "error", "trace"}
    /\ reply.ok = "false"
    /\ reply.error_keys = ErrorKeys

\* {ok:true, result, trace}
SuccessShape ==
    /\ reply.keys = {"ok", "result", "trace"}
    /\ reply.ok = "true"

\* C11: whatever the operation name and the arguments, a request without a
\* token fails with AUTH_DENIED and one with a token other than the shared
\* key fails with AUTH_INVALID; no handler runs, no adapter or tool is
\* invoked and the registry is unchanged.
C11_UnauthenticatedIsRejected ==
    Answered /\ reply.req.token # Psk =>
        /\ reply.outcome = "returned"
        /\ ErrorShape
        /\ reply.code = IF reply.req.token = "" THEN "AUTH_DENIED"
                        ELSE "AUTH_INVALID"
        /\ reply.handler = ""
        /\ reply.calls = {}
        /\ ~reply.registry_changed

\* C12: the trace returned with a successful fabric.call, synchronous or
\* streamed, has the request's trace_id when the request gave one and a
\* fresh id otherwise, and a span_id that is fresh and differs from the
\* parent_span_id.
C12_TraceInheritedOrFresh ==
    /\ Answered
    /\ reply.req.name = "fabric.call"
    /\ reply.ok = "true"
    => /\ reply.req.trace_id # "" => reply.trace.trace_id = reply.req.trace_id
       /\ reply.req.trace_id = "" => reply.trace.trace_id \in reply.fresh
       /\ reply.trace.span_id \in reply.fresh
       /\ reply.trace.span_id # reply.trace.parent_span_id
       /\ reply.trace.span_id # reply.trace.trace_id

\* C13: every non-streamed response to an operation of the closed set is
\* {ok:true, result, trace} or {ok:false, error:{code, message, details},
\* trace}.
C13_ResponseHasOneOfTwoShapes ==
    /\ reply.outcome = "returned"
    /\ ~reply.req.stream
    /\ reply.req.name \in ClosedOperationSet
    => SuccessShape \/ ErrorShape

\* C14: handle_tool_call never lets an exception out: every failure is
\* returned as {ok:false, error:{code, message, details}, trace}, and what a
\* tool or adapter raised that is not a Fabric error carries INTERNAL_ERROR.
C14_NoExceptionEscapes ==
    Answered /\ ~reply.req.stream =>
        /\ reply.outcome = "returned"
        /\ reply.ok = "false" => ErrorShape
        /\ /\ reply.req.tool_outcome = "Exception"
           /\ reply.calls # {}
           /\ reply.calls \cap {"call", "health"} = {}
           => reply.code = "INTERNAL_ERROR"
        /\ reply.raised # "" => reply.code = "INTERNAL_ERROR"

\* C16: an authenticated request is answered BAD_INPUT as an unknown
\* operation exactly when its name is outside the closed operation set; the
\* five fabric.message operations are routed to a handler.
C16_UnknownOperationIffOutsideSet ==
    /\ Answered
    /\ reply.outcome = "returned"
    /\ ~reply.req.stream
    /\ reply.req.token = Psk
    => /\ (reply.handler = "" /\ reply.code = "BAD_INPUT")
            <=> reply.req.name \notin ClosedOperationSet
       /\ reply.req.name \in MessageOperations => reply.handler # ""

\* C17: fabric.tool.call with a tool_id registered nowhere and not an agent
\* reference fails with TOOL_NOT_FOUND; with a registered tool_id and a
\* capability the tool does not declare it fails with CAPABILITY_NOT_FOUND
\* and no tool method runs.
C17_ToolCallFrameworkCodes ==
    /\ Answered
    /\ reply.outcome = "returned"
    /\ ~reply.req.stream
    /\ reply.req.token = Psk
    /\ reply.req.name = "fabric.tool.call"
    /\ reply.req.tool_id # ""
    => /\ /\ reply.req.tool_id \notin DOMAIN BuiltinTools
          /\ reply.req.tool_id \notin DOMAIN toolRegistry
          /\ reply.req.tool_id \notin DOMAIN AgentRefOf
          => reply.ok = "false" /\ reply.code = "TOOL_NOT_FOUND"
       /\ /\ reply.req.tool_id \in DOMAIN BuiltinTools
          /\ reply.req.capability # BuiltinTools[reply.req.tool_id]
          => /\ reply.ok = "false"
             /\ reply.code = "CAPABILITY_NOT_FOUND"
             /\ reply.calls = {}

\* C19: a synchronous fabric.call with timeout_ms = 0 that reaches the
\* adapter yields TIMEOUT and never the adapter's result.
C19_ZeroTimeoutYieldsTimeout ==
    /\ Answered
    /\ reply.outcome = "returned"
    /\ ~reply.req.stream
    /\ reply.req.name = "fabric.call"
    /\ reply.req.timeout_ms = 0
    /\ "call" \in reply.calls
    => /\ ErrorShape
       /\ reply.code = "TIMEOUT"

(***************************************************************************)
(* Tool registry (tools/base.py)                                           *)
(***************************************************************************)
\* tool classes of tools/plugins: TOOL_ID, CAPABILITIES (capability name ->
\* method name) and the methods the class defines; every class has its own
\* TOOL_ID, and a class that sets none keeps TOOL_ID = None ("")
ToolClasses ==
    { [name |-> "CalculateTool", tool_id |-> "math.calculate",
       capabilities |-> [c \in {"eval"} |-> "eval"], methods |-> {"eval"}],
      [name |-> "URLEncodeTool", tool_id |-> "encode.url",
       capabilities |-> [c \in {"encode"} |-> "url_encode"],
       methods |-> {"url_encode"}],
      [name |-> "NotificationTool", tool_id |-> "notification.send",
       capabilities |-> [c \in {"send", "slack"} |->
                            IF c = "send" THEN "send" ELSE "send_slack"],
       methods |-> {"send", "send_slack", "send_discord"}],
      [name |-> "MathTools", tool_id |-> "",
       capabilities |-> << >>, methods |-> {"eval", "analyze"}] }

\* no tool class (None)
NoToolClass ==
    [name |-> "", tool_id |-> "", capabilities |-> << >>, methods |-> {}]

\* BaseTool.get_tool_class
GetToolClass(registry, tool_id) ==
    IF tool_id \in DOMAIN registry THEN registry[tool_id] ELSE NoToolClass

\* BaseTool.register: a class without TOOL_ID is skipped
RegisterTool(registry, tool_class) ==
    IF tool_class.tool_id = "" THEN registry
    ELSE Put(registry, tool_class.tool_id, tool_class)

\* BaseTool.get_tool_instance: the singleton per tool_id, created on first use
ToolInstancesAfterGet(tool_id) ==
    IF tool_id \notin DOMAIN toolInstances
       /\ GetToolClass(toolRegistry, tool_id) # NoToolClass
    THEN Put(toolInstances, tool_id, GetToolClass(toolRegistry, tool_id))
    ELSE toolInstances

\* execute_capability that looks the method up without consulting
\* CAPABILITIES
ExecuteCapabilityUndeclared(tool, capability, outcome) ==
    IF capability \in tool.methods
    THEN [raised |-> IF outcome = "ok" THEN "" ELSE outcome,
          invoked |-> {capability}]
    ELSE [raised |-> "CAPABILITY_NOT_IMPLEMENTED", invoked |-> {}]

\* BaseTool.execute_capability: what it raises ("" when the method returned
\* a ToolResult) and the method it invoked
ExecuteCapability(tool, capability, outcome) ==
    IF capability \notin DOMAIN tool.capabilities
    THEN [raised |-> "CAPABILITY_NOT_FOUND", invoked |-> {}]
    ELSE IF tool.capabilities[capability] \notin tool.methods
    THEN [raised |-> "CAPABILITY_NOT_IMPLEMENTED", invoked |-> {}]
    ELSE [raised |-> IF outcome = "ok" THEN "" ELSE outcome,
          invoked |-> {tool.capabilities[capability]}]

\* tools.base.execute_tool(tool_id, capability, arguments): the dictionary
\* it returns
BaseExecuteTool(tool_id, capability, outcome) ==
    LET instances == ToolInstancesAfterGet(tool_id) IN
    IF tool_id \notin DOMAIN instances
    THEN [ok |-> "false", code |-> "TOOL_NOT_FOUND", invoked |-> {}]
    ELSE LET run == ExecuteCapability(instances[tool_id], capability, outcome)
         IN [ok |-> IF run.raised = "" THEN "true" ELSE "false",
             code |-> IF run.raised = "Exception" THEN "EXECUTION_ERROR"
                      ELSE IF run.raised = "ToolError" THEN "TOOL_FAILED"
                      ELSE run.raised,
             invoked |-> run.invoked]

\* a plugin module is imported: its class registers itself
BaseToolRegister(tool_class) ==
    /\ toolRegistry' = RegisterTool(toolRegistry, tool_class)
    /\ UNCHANGED << extVars, registryVars, httpVars, busVars, gatewayVars,
                    toolInstances, toolReply >>

\* execute_tool is called
ExecuteTool(tool_id, capability, outcome) ==
    /\ toolInstances' = ToolInstancesAfterGet(tool_id)
    /\ toolReply' =
        LET out == BaseExecuteTool(tool_id, capability, outcome) IN
        [tool_id |-> tool_id, capability |-> capability,
         registered |-> tool_id \in DOMAIN toolRegistry,
         declared |-> /\ tool_id \in DOMAIN toolRegistry
                      /\ capability \in
                            DOMAIN toolRegistry[tool_id].capabilities,
         ok |-> out.ok, code |-> out.code, invoked |-> out.invoked]
    /\ UNCHANGED << extVars, registryVars, httpVars, busVars, gatewayVars,
                    toolRegistry >>

\* BaseTool.load_plugins when server.py is imported, before the endpoint
\* answers anything: every plugin class registers (nothing is registered
\* when the plugins directory is not found)
LoadPlugins ==
    /\ toolRegistry = << >>
    /\ reply = NoReply
    /\ toolRegistry' =
        [id \in {c.tool_id : c \in ToolClasses} \ {""} |->
            CHOOSE c \in ToolClasses : c.tool_id = id]
    /\ UNCHANGED << extVars, registryVars, httpVars, busVars, gatewayVars,
                    toolInstances, toolReply >>

NextGateway ==
    \/ \E m \in GatewayManifests, k \in GatewayAdapters : Register(m, k)
    \/ \E req \in GatewayRequests : GatewayCall(req)
    \/ \E req \in GatewayRequests : GatewayCallStream(req)
    \/ LoadPlugins

SpecGateway == Init /\ [][NextGateway]_vars

(***************************************************************************)
(* SpecTools                                                               *)
(***************************************************************************)
ToolIds == {"math.calculate", "encode.url", "notification.send", "nope.nothing"}

ToolCapabilities == {"eval", "send", "bogus"}

NextTools ==
    \/ \E c \in ToolClasses : BaseToolRegister(c)
    \/ \E id \in ToolIds, c \in ToolCapabilities, o \in ToolOutcomes :
          ExecuteTool(id, c, o)

SpecTools == Init /\ [][NextTools]_vars

C15_StreamFailureHasTerminalEvent ==
    stream.state = "aborted" =>
        /\ stream.frames # << >>
        /\ Terminal(stream.frames[Len(stream.frames)])
        /\ stream.frames[Len(stream.frames)].data.ok = "false"

\* the ids handed out by the last n sends, oldest first
NewestSent(n) == [i \in 1..n |-> lastId - n + i]

\* C20 as stated: after any sequence of sends the inbox holds at most the
\* capped length of records, they are the most recently sent ones in send
\* order, and every send returns status queued.
C20_InboxAtMostCapNewestRetained ==
    /\ Len(inbox) <= StreamMaxLen
    /\ inbox = NewestSent(Len(inbox))
    /\ lastSend # NoSend => lastSend.status = "queued"

\* C20 as amended: the inbox keeps no fewer than the capped length of the
\* most recently sent records (all of them while fewer were sent) and may
\* hold more, the trim being approximate; what it holds are the most recently
\* sent records in send order, the oldest being trimmed first; every send,
\* also one that trims, returns status queued with the id of its record.
C20_InboxKeepsNewestAtLeastCap ==
    /\ Len(inbox) >= Min(lastId, StreamMaxLen)
    /\ inbox = NewestSent(Len(inbox))
    /\ trimmed = 1..(lastId - Len(inbox))
    /\ lastSend # NoSend =>
          /\ lastSend.status = "queued"
          /\ lastSend.stream_id = lastId
          /\ lastId \in Range(inbox)

\* the last send trimmed the inbox down to the capped length
C20_Witness ==
    /\ lastId = MaxSends
    /\ lastSend.stream_id = MaxSends
    /\ trimmed # {}
    /\ Len(inbox) = StreamMaxLen

(***************************************************************************)
(* The message bus against a store that fails (fabric_message_bus.py)      *)
(***************************************************************************)
\* a store command issued while the store is unreachable raises
\* redis.ConnectionError in the client; the bus operation that issued it
\* ends as recorded here (one attempt: no operation of the bus loops)
BusRaised(op, failed_at) ==
    [op |-> op, failed_at |-> failed_at, outcome |-> "raised",
     exception |-> "ConnectionError", code |-> "", result |-> "",
     attempts |-> 1]

BusReturned(op, failed_at, result) ==
    [op |-> op, failed_at |-> failed_at, outcome |-> "returned",
     exception |-> "", code |-> "", result |-> result, attempts |-> 1]

\* send_message: xadd, then publish; neither is guarded.  When the store is
\* lost between the two the record is in the inbox and the sender gets the
\* exception instead of the stream id.
SendMessageStoreDown(failed_at) ==
    /\ failed_at \in {"xadd", "publish"}
    /\ IF failed_at = "publish"
       THEN /\ lastId < MaxSends
            /\ \E drop \in TrimChoices(Len(inbox) + 1) :
                 /\ inbox' = XAdd(inbox, lastId + 1, drop)
                 /\ trimmed' = trimmed \cup {inbox[i] : i \in 1..drop}
            /\ lastId' = lastId + 1
            /\ quiet' = FALSE
       ELSE UNCHANGED << inbox, trimmed, lastId, quiet >>
    /\ busOp' = BusRaised("send", failed_at)
    /\ UNCHANGED << storeRest, registryVars, httpVars, gatewayVars, toolVars, groups,
                    sent, acked, seen, unacked, disciplined, lastRecv,
                    deliveries, lastSend >>

\* receive_messages, consumer_group=None: xread is not guarded
ReceivePlainStoreDown ==
    /\ busOp' = BusRaised("receive_plain", "xread")
    /\ UNCHANGED << storeRest, registryVars, httpVars, gatewayVars, toolVars, busVars >>

\* receive_messages with a consumer group: the inner handler lets through
\* everything but redis.ResponseError, the outer one catches every Exception,
\* logs it and falls through to "return messages" with the list still empty
ReceiveGroupStoreDown(g, failed_at) ==
    /\ failed_at \in {"xgroup_create", "xreadgroup"}
    /\ IF failed_at = "xreadgroup" /\ g \notin DOMAIN groups
       THEN groups' = Put(groups, g, XGroupCreate(lastId))
       ELSE UNCHANGED groups
    /\ busOp' = BusReturned("receive_group", failed_at, "[]")
    /\ UNCHANGED << storeRest, registryVars, httpVars, gatewayVars, toolVars, inbox,
                    lastId, sent, trimmed, acked, seen, unacked, disciplined,
                    quiet, lastRecv, deliveries, lastSend >>

\* acknowledge_message: xack (group) or xdel (plain), not guarded
AcknowledgeStoreDown(command) ==
    /\ command \in {"xack", "xdel"}
    /\ busOp' = BusRaised("acknowledge", command)
    /\ UNCHANGED << storeRest, registryVars, httpVars, gatewayVars, toolVars, busVars >>

\* publish: r.publish is not guarded
PublishStoreDown ==
    /\ busOp' = BusRaised("publish", "publish")
    /\ UNCHANGED << storeRest, registryVars, httpVars, gatewayVars, toolVars, busVars >>

\* FabricMessageBusMCP.queue_status: get_queue_depth (xlen) is not guarded,
\* get_stream_info (xinfo_stream) sits in "try ... except: info = {}"
QueueStatusStoreDown(failed_at) ==
    /\ failed_at \in {"xlen", "xinfo_stream"}
    /\ busOp' = IF failed_at = "xlen"
                THEN BusRaised("queue_status", failed_at)
                ELSE BusReturned("queue_status", failed_at, "stream_info={}")
    /\ UNCHANGED << storeRest, registryVars, httpVars, gatewayVars, toolVars, busVars >>

\* the bus with one consumer of one group, and a store that may fail under
\* any operation
NextStore ==
    \/ SendMessage
    \/ \E g \in GroupNames : ReceiveGroup("c1", g, MaxCount)
    \/ \E f \in {"xadd", "publish"} : SendMessageStoreDown(f)
    \/ ReceivePlainStoreDown
    \/ \E g \in GroupNames, f \in {"xgroup_create", "xreadgroup"} :
          ReceiveGroupStoreDown(g, f)
    \/ \E c \in {"xack", "xdel"} : AcknowledgeStoreDown(c)
    \/ PublishStoreDown
    \/ \E f \in {"xlen", "xinfo_stream"} : QueueStatusStoreDown(f)

SpecStore == Init /\ [][NextStore]_vars

\* C21: when the store is unavailable every messaging operation (send,
\* receive in plain and in group mode, acknowledge, publish, queue status)
\* ends with an UPSTREAM_ERROR to its caller: none returns a success or an
\* empty result, and none is retried.
C21_StoreFailureSurfacesUpstreamError ==
    busOp.op # "" =>
        /\ busOp.outcome = "raised"
        /\ busOp.code = "UPSTREAM_ERROR"
        /\ busOp.attempts = 1

(***************************************************************************)
(* Pub/sub listeners (fabric_message_bus.py, sdk messaging.py)             *)
(***************************************************************************)
\* messages published on the subscribed topic
MaxPublished == 3

\* subscribe(topics, callback): open the pubsub connection, subscribe, start
\* the listener task; the store answers with a subscribe confirmation that
\* listen() yields first
Subscribe(impl) ==
    /\ ~listeners[impl].subscribed
    /\ listeners' = [listeners EXCEPT ![impl] =
                        [NoListener EXCEPT !.subscribed = TRUE,
                                           !.alive = TRUE,
                                           !.pending = <<[type |-> "subscribe",
                                                          id |-> 0,
                                                          kind |-> "good"]>>]]
    /\ UNCHANGED << pubsubRest, registryVars, httpVars, busVars, gatewayVars,
                    toolVars >>

\* publish(topic, message): the store hands the message to every connection
\* subscribed at that moment, and to no other.  The kind of the payload says
\* what it does to a subscriber: "good" is processed, on "poison" the handler
\* raises, "malformed" is not JSON.
PubSubPublish(kind) ==
    LET delivered == UNION {{m.id : m \in Range(listeners[i].pending
                                                 \o listeners[i].consumed)} :
                            i \in ListenerImpls} \ {0}
        id == Cardinality(delivered) + 1
    IN
    /\ id <= MaxPublished
    /\ \E i \in ListenerImpls : listeners[i].subscribed
    /\ listeners' = [i \in ListenerImpls |->
                        IF listeners[i].subscribed
                        THEN [listeners[i] EXCEPT !.pending =
                                 Append(@, [type |-> "message", id |-> id,
                                            kind |-> kind])]
                        ELSE listeners[i]]
    /\ UNCHANGED << pubsubRest, registryVars, httpVars, busVars, gatewayVars,
                    toolVars >>

\* one iteration of _listen_loop with the try block left out: an exception
\* of the handler leaves the loop and ends the listener task
ListenStepUnguarded(impl, l) ==
    LET msg == Head(l.pending)
        next == [l EXCEPT !.pending = Tail(@), !.consumed = Append(@, msg)]
    IN
    IF msg.type # "message" THEN next
    ELSE IF msg.kind = "malformed"
    THEN [next EXCEPT !.alive = FALSE, !.died_on = "JSONDecodeError"]
    ELSE IF msg.kind = "poison"
    THEN [next EXCEPT !.passed = Append(@, msg), !.alive = FALSE,
                      !.died_on = "handler"]
    ELSE [next EXCEPT !.passed = Append(@, msg)]

\* one iteration of _listen_loop.  Bus: json.loads stands before the try, so a
\* payload that is not JSON ends the task; callback(channel, data) stands in
\* the try.  SDK: json.loads and "await handler(channel, data)" both stand in
\* the try.  A caught exception is logged and the loop takes the next message.
ListenStep(impl, l) ==
    LET msg == Head(l.pending)
        next == [l EXCEPT !.pending = Tail(@), !.consumed = Append(@, msg)]
    IN
    IF msg.type # "message" THEN next
    ELSE IF msg.kind = "malformed"
    THEN IF impl = "bus"
         THEN [next EXCEPT !.alive = FALSE, !.died_on = "JSONDecodeError"]
         ELSE [next EXCEPT !.raised = @ + 1]
    ELSE IF msg.kind = "poison"
    THEN [next EXCEPT !.passed = Append(@, msg), !.raised = @ + 1]
    ELSE [next EXCEPT !.passed = Append(@, msg)]

\* the listener task takes the next message from its connection
ListenLoop(impl) ==
    /\ listeners[impl].alive
    /\ listeners[impl].pending # << >>
    /\ listeners' = [listeners EXCEPT ![impl] = ListenStep(impl, @)]
    /\ UNCHANGED << pubsubRest, registryVars, httpVars, busVars, gatewayVars,
                    toolVars >>

NextPubSub ==
    \/ \E i \in ListenerImpls : Subscribe(i)
    \/ \E k \in {"good", "poison", "malformed"} : PubSubPublish(k)
    \/ \E i \in ListenerImpls : ListenLoop(i)

SpecPubSub == Init /\ [][NextPubSub]_vars

\* C22: when the subscription handler raises on a pub/sub message the
\* listener keeps running: no listener task ever ends on a handler
\* exception, and every well-formed message the task takes from its
\* connection, also one that follows a message the handler raised on, is
\* passed to the handler, in order.
C22_ListenerSurvivesHandlerException ==
    \A i \in ListenerImpls :
        LET l == listeners[i] IN
        /\ l.died_on # "handler"
        /\ (l.subscribed /\ ~l.alive) => i = "bus" /\ l.died_on = "JSONDecodeError"
        /\ l.passed = SelectSeq(IF l.alive THEN l.consumed
                                ELSE SubSeq(l.consumed, 1, Len(l.consumed) - 1),
                                LAMBDA m : m.type = "message"
                                           /\ m.kind # "malformed")

\* both listeners have passed to the handler a message it raised on and,
\* after it, a later message
C22_Witness ==
    \A i \in ListenerImpls :
        LET l == listeners[i] IN
        /\ l.alive
        /\ l.raised >= 1
        /\ Len(l.passed) >= 2
        /\ l.passed[1].kind = "poison"
        /\ l.passed[2].kind = "good"

(***************************************************************************)
(* SDK streaming send (sdk messaging.py, AsyncMessagingClient)             *)
(***************************************************************************)
\* frames the callee publishes in answer to one request
MaxFrames == 3

\* the reply_to written into the request (messaging.py:392) and the channel
\* the caller subscribes to (messaging.py:412), for caller "caller" and the
\* correlation id "corr"
ReplyTo == "agent:caller:responses:corr"

ResponseChannel == "agent.caller.response.corr"

\* send_message_streaming up to its first suspension after the xadd: the
\* request, carrying reply_to, is in the callee's inbox
StreamingSend ==
    /\ sdkStream.pc = "idle"
    /\ sdkStream' = [sdkStream EXCEPT !.pc = "sent", !.reply_to = ReplyTo,
                                      !.requested = TRUE]
    /\ UNCHANGED << sdkRest, registryVars, httpVars, busVars, gatewayVars,
                    toolVars >>

\* ... then opens a pubsub connection and subscribes to the response channel
StreamingSubscribe ==
    /\ sdkStream.pc = "sent"
    /\ sdkStream' = [sdkStream EXCEPT !.pc = "listening",
                                      !.subscribed = {ResponseChannel}]
    /\ UNCHANGED << sdkRest, registryVars, httpVars, busVars, gatewayVars,
                    toolVars >>

\* the callee, having the request, publishes a frame of its answer on a
\* channel; the store hands it to the connections subscribed to that channel
\* at that moment and drops it when there is none
CalleePublish(channel, event) ==
    /\ sdkStream.requested
    /\ ~sdkStream.terminal_published
    /\ sdkStream.published < MaxFrames
    /\ LET frame == [id |-> sdkStream.published + 1, channel |-> channel,
                     event |-> event]
       IN sdkStream' =
            [sdkStream EXCEPT
               !.published = @ + 1,
               !.terminal_published = (event = "final"),
               !.pending = IF channel \in sdkStream.subscribed
                           THEN Append(@, frame) ELSE @,
               !.missed = IF channel \in sdkStream.subscribed
                          THEN @ ELSE Append(@, frame)]
    /\ UNCHANGED << sdkRest, registryVars, httpVars, busVars, gatewayVars,
                    toolVars >>

\* one iteration of "async for response_msg in pubsub.listen()": the frame
\* goes to the callback; the body has no break and no test for a terminal
\* frame, so the statements after the loop (unsubscribe, close) are not
\* reached while the connection stands
StreamingListen ==
    /\ sdkStream.pc = "listening"
    /\ sdkStream.pending # << >>
    /\ sdkStream' = [sdkStream EXCEPT !.pending = Tail(@),
                                      !.received = Append(@, Head(sdkStream.pending))]
    /\ UNCHANGED << sdkRest, registryVars, httpVars, busVars, gatewayVars,
                    toolVars >>

\* one streaming send and the callee answering it
NextSdkStream ==
    \/ StreamingSend
    \/ StreamingSubscribe
    \/ \E c \in {ReplyTo, ResponseChannel}, e \in {"token", "final"} :
          CalleePublish(c, e)
    \/ StreamingListen

SpecSdkStream == Init /\ [][NextSdkStream]_vars

\* C23: the caller of a streaming send is subscribed to the request's
\* reply_to channel before the request is in the callee's inbox, so that no
\* frame the callee publishes is missed.
C23_SubscribedBeforeRequestAppended ==
    sdkStream.requested =>
        /\ sdkStream.reply_to \in sdkStream.subscribed
        /\ sdkStream.missed = << >>

\* C24: once a terminal frame has been handed to the callback the streaming
\* send has stopped listening, unsubscribed from the response channel and
\* closed its connection.
C24_TerminalFrameEndsStreamingSend ==
    (\E i \in 1..Len(sdkStream.received) : sdkStream.received[i].event = "final")
        => /\ sdkStream.pc = "closed"
           /\ sdkStream.subscribed = {}

(***************************************************************************)
(* Registry contract: status after register                                *)
(***************************************************************************)
\* C25: after register(manifest, adapter), for a new or an existing agent_id,
\* get(agent_id) returns a manifest whose status is online (and whose
\* capabilities are those just registered), whatever status the manifest or
\* the earlier record carried, in the in-memory and in the PostgreSQL
\* registry.
C25_RegisteredAgentIsOnline ==
    \A a \in AgentIds :
        /\ lastReg.mem[a].present =>
              /\ GetAgent(a).status = "online"
              /\ GetAgent(a).capabilities = lastReg.mem[a].caps
        /\ lastReg.pg[a].present =>
              /\ PgGetAgent(a).status = "online"
              /\ PgGetAgent(a).capabilities = lastReg.pg[a].caps

(***************************************************************************)
(* Re-registration against a dispatch that reads the registry              *)
(***************************************************************************)
\* the registrations of SpecAtomic: each agent is registered with one of two
\* manifests, each with the adapter built for it
AtomicRegistrations ==
    {[manifest |-> [agent_id |-> a, capabilities |-> {[name |-> "reason",
                                                        streaming |-> FALSE]},
                    status |-> "online"],
      adapter |-> "mcp"] : a \in AgentIds}
    \cup
    {[manifest |-> [agent_id |-> a, capabilities |-> {[name |-> "stream_reason",
                                                        streaming |-> TRUE]},
                    status |-> "online"],
      adapter |-> "agentzero"] : a \in AgentIds}

\* _handle_call on the in-memory registry: get_agent and get_adapter are plain
\* dictionary reads with no suspension point between them, and register is a
\* plain function, so the two reads see the registry of one moment
DispatchReadMemory(agent_id, capability) ==
    /\ dispatchView.pc # "agent_read"
    /\ dispatchView' = [pc |-> "done", registry |-> "mem",
                        agent_id |-> agent_id, capability |-> capability,
                        manifest |-> GetAgent(agent_id),
                        adapter |-> GetAdapter(agent_id),
                        adapter_manifest |-> NoManifest]
    /\ UNCHANGED << viewRest, registryVars, httpVars, busVars, gatewayVars,
                    toolVars >>

\* _handle_call on PostgresRegistry, first read: get_agent runs one SELECT
\* (agent joined with its capabilities) in a session of its own
DispatchGetAgentPg(agent_id, capability) ==
    /\ dispatchView.pc # "agent_read"
    /\ dispatchView' = [NoDispatchView EXCEPT !.pc = "agent_read",
                                              !.registry = "pg",
                                              !.agent_id = agent_id,
                                              !.capability = capability,
                                              !.manifest = PgGetAgent(agent_id)]
    /\ UNCHANGED << viewRest, registryVars, httpVars, busVars, gatewayVars,
                    toolVars >>

\* _handle_call on PostgresRegistry, second read: get_adapter calls get_agent
\* again, in a new session, and builds the adapter around what it returns;
\* the database is shared with every writer that committed in between
DispatchGetAdapterPg ==
    /\ dispatchView.pc = "agent_read"
    /\ LET agent == PgGetAgent(dispatchView.agent_id) IN
       dispatchView' = [dispatchView EXCEPT
                           !.pc = "done",
                           !.adapter = IF agent = NoManifest THEN NoAdapter
                                       ELSE "mcp",
                           !.adapter_manifest = agent]
    /\ UNCHANGED << viewRest, registryVars, httpVars, busVars, gatewayVars,
                    toolVars >>

NextAtomic ==
    \/ \E r \in AtomicRegistrations : Register(r.manifest, r.adapter)
    \/ \E r \in AtomicRegistrations : PgRegister(r.manifest)
    \/ \E a \in AgentIds, c \in CapNames : DispatchReadMemory(a, c)
    \/ \E a \in AgentIds, c \in CapNames : DispatchGetAgentPg(a, c)
    \/ DispatchGetAdapterPg

SpecAtomic == Init /\ [][NextAtomic]_vars

\* C26: a dispatch that reads the registry while the agent is re-registered
\* sees the whole old record or the whole new one: the manifest it checks and
\* the adapter it calls belong to one registration, never to two.
C26_DispatchSeesOneRegistration ==
    (dispatchView.pc = "done" /\ dispatchView.manifest # NoManifest) =>
        IF dispatchView.registry = "mem"
        THEN [manifest |-> dispatchView.manifest,
              adapter |-> dispatchView.adapter] \in AtomicRegistrations
        ELSE dispatchView.adapter_manifest = dispatchView.manifest

(***************************************************************************)
(* Registry contract: listing, and the two registries side by side         *)
(***************************************************************************)
\* the elements of a finite set as a list, in some fixed order
RECURSIVE SeqOf(_)
SeqOf(S) ==
    IF S = {} THEN << >>
    ELSE LET x == CHOOSE y \in S : TRUE IN <<x>> \o SeqOf(S \ {x})

\* list(d.values()) of a Python dict: one element for each key
Values(d) == LET keys == SeqOf(DOMAIN d) IN [i \in 1..Len(keys) |-> d[keys[i]]]

\* AgentRegistry.list_agents(capability, status); "" stands for a filter that
\* is not given
ListAgents(capability, status) ==
    SelectSeq(Values(agents),
              LAMBDA m : /\ (capability # "" => capability \in CapNamesOf(m))
                         /\ (status # "" => m.status = status))

\* AgentRegistry.find_by_capability(capability)
FindByCapability(capability) ==
    SelectSeq(Values(agents), LAMBDA m : capability \in CapNamesOf(m))

\* PostgresRegistry.list_agents(capability, status): the status filter in the
\* query, the capability filter over the rows loaded; find_by_capability is
\* list_agents(capability=capability)
PgListAgents(capability, status) ==
    SelectSeq([i \in 1..Cardinality(dbAgents) |->
                  DbAgentToManifest(SeqOf(dbAgents)[i])],
              LAMBDA m : /\ (status # "" => m.status = status)
                         /\ (capability # "" => capability \in CapNamesOf(m)))

\* C27: the in-memory and the PostgreSQL registry implement one contract:
\* after the same registrations, get, list with a capability or status
\* filter and find_by_capability give the same result on both.
C27_RegistriesAgree ==
    /\ \A a \in AgentIds :
          (lastReg.mem[a].present /\ lastReg.pg[a] = lastReg.mem[a]) =>
              GetAgent(a) = PgGetAgent(a)
    /\ lastReg.mem = lastReg.pg =>
          \A c \in CapNames \cup {""}, s \in AgentStatus \cup {""} :
              Range(ListAgents(c, s)) = Range(PgListAgents(c, s))

(***************************************************************************)
(* Health sweeps (server.py update_health_status, postgres_registry.py)    *)
(***************************************************************************)
\* the staleness threshold, timedelta(minutes=5), as one tick of the clock
StaleAfter == 1

\* how far the clock runs
MaxClock == 2

\* health observations the in-memory sweeps make in one behaviour
MaxObservations == 3

\* time passes
Tick ==
    /\ clock < MaxClock
    /\ clock' = clock + 1
    /\ UNCHANGED << sweepRest, registryVars, httpVars, busVars, gatewayVars,
                    toolVars, endpoint, sweeps, sweepLog >>

\* the agent behind an endpoint changes what it answers to a health ping;
\* "raises" is a failed ping
EndpointChanges(agent_id, answer) ==
    /\ endpoint[agent_id] # answer
    /\ endpoint' = [endpoint EXCEPT ![agent_id] = answer]
    /\ UNCHANGED << sweepRest, registryVars, httpVars, busVars, gatewayVars,
                    toolVars, clock, sweeps, sweepLog >>

\* AgentRegistry.update_health_status is entered: the loop over
\* self.adapters.items() begins
SweepStart(s) ==
    /\ sweeps[s].pc = "idle"
    /\ DOMAIN adapters # {}
    /\ sweeps' = [sweeps EXCEPT ![s] =
                     [NoSweep EXCEPT !.pc = "calling",
                                     !.todo = SeqOf(DOMAIN adapters)]]
    /\ UNCHANGED << sweepRest, registryVars, httpVars, busVars, gatewayVars,
                    toolVars, clock, endpoint, sweepLog >>

\* "status = await adapter.health()": the sweep asks the adapter of the next
\* agent, whatever the age of the agent's last sign of life (sweepLog.seen:
\* its registration at start-up, time 0, or a later health answer).  An adapter that
\* pings its endpoint ("remote") suspends the sweep and answers with the
\* endpoint's state of this moment; RuntimeMCP and RuntimeAgentZero as they
\* stand answer ONLINE, the RuntimeAdapter base class raises.
SweepObserve(s) ==
    /\ sweeps[s].pc = "calling"
    /\ sweepLog.observations < MaxObservations
    /\ LET a == Head(sweeps[s].todo) IN
        /\ sweeps' = [sweeps EXCEPT ![s].pc = "answered",
                         ![s].observed = IF adapters[a] = "remote"
                                         THEN endpoint[a]
                                         ELSE AdapterHealth(adapters[a]),
                         ![s].seq = sweepLog.observations + 1,
                         ![s].stale = (clock - sweepLog.seen[a] > StaleAfter)]
        /\ sweepLog' = [sweepLog EXCEPT !.observations = @ + 1]
    /\ UNCHANGED << sweepRest, registryVars, httpVars, busVars, gatewayVars,
                    toolVars, clock, endpoint >>

\* the sweep resumes with the answer and writes it into the manifest (OFFLINE
\* when health() raised), then goes on to the next adapter
SweepWrite(s) ==
    /\ sweeps[s].pc = "answered"
    /\ LET a == Head(sweeps[s].todo)
           status == IF sweeps[s].observed = "raises" THEN "offline"
                     ELSE sweeps[s].observed
       IN
        /\ agents' = IF a \in DOMAIN agents
                     THEN [agents EXCEPT ![a].status = status]
                     ELSE agents
        /\ sweepLog' = [sweepLog EXCEPT
               !.seen[a] = IF sweeps[s].observed = "raises" THEN @ ELSE clock,
               !.newest[a] = IF sweeps[s].seq > @.seq
                             THEN [seq |-> sweeps[s].seq, status |-> status]
                             ELSE @,
               !.visit = [registry |-> "mem", agent_id |-> a,
                          stale |-> sweeps[s].stale, invoked |-> TRUE,
                          observed |-> sweeps[s].observed, status |-> status]]
        /\ sweeps' = [sweeps EXCEPT ![s] =
                         IF Tail(sweeps[s].todo) = << >>
                         THEN NoSweep
                         ELSE [NoSweep EXCEPT !.pc = "calling",
                                              !.todo = Tail(sweeps[s].todo)]]
    /\ UNCHANGED << sweepRest, adapters, pgVars, lastReg, httpVars, busVars,
                    gatewayVars, toolVars, clock, endpoint >>

\* PostgresRegistry.update_health_status: one session over all rows; a row
\* whose last_seen_at is older than the threshold becomes OFFLINE, any other
\* row keeps its status; no adapter is looked up or asked.  The visit
\* recorded is the one of some row.
PgUpdateHealthStatus ==
    /\ dbAgents # {}
    /\ dbAgents' = {IF clock - r.last_seen_at > StaleAfter
                    THEN [r EXCEPT !.status = "offline"] ELSE r : r \in dbAgents}
    /\ \E r \in dbAgents :
          sweepLog' = [sweepLog EXCEPT !.visit =
              [registry |-> "pg", agent_id |-> r.agent_id,
               stale |-> (clock - r.last_seen_at > StaleAfter),
               invoked |-> FALSE, observed |-> "",
               status |-> IF clock - r.last_seen_at > StaleAfter
                          THEN "offline" ELSE r.status]]
    /\ UNCHANGED << sweepRest, memVars, dbCaps, dbNextId, lastReg, httpVars,
                    busVars, gatewayVars, toolVars, clock, endpoint, sweeps >>

\* PostgresRegistry.update_agent_status(agent_id, status): the reported
\* status, and now as the last sign of life
PgUpdateAgentStatus(agent_id, status) ==
    /\ DbAgentRow(agent_id) # {}
    /\ LET row == CHOOSE r \in DbAgentRow(agent_id) : TRUE IN
       dbAgents' = (dbAgents \ {row})
                     \cup {[row EXCEPT !.status = status, !.last_seen_at = clock]}
    /\ UNCHANGED << extVars, memVars, dbCaps, dbNextId, lastReg, httpVars,
                    busVars, gatewayVars, toolVars >>

\* the agent of SpecSweep
SweepManifest ==
    [agent_id |-> "alpha",
     capabilities |-> {[name |-> "reason", streaming |-> FALSE]},
     status |-> "unknown"]

\* one agent, registered in memory at start-up with either adapter and in
\* PostgreSQL at any time; two fabric.health requests whose sweeps overlap
NextSweep ==
    \/ \E k \in {"remote", "mcp"} :
          /\ clock = 0
          /\ agents = << >>
          /\ Register(SweepManifest, k)
    \/ PgRegister(SweepManifest)
    \/ PgUpdateAgentStatus("alpha", "offline")
    \/ PgUpdateHealthStatus
    \/ Tick
    \/ \E h \in {"online", "degraded", "raises"} : EndpointChanges("alpha", h)
    \/ \E s \in Sweeps : SweepStart(s)
    \/ \E s \in Sweeps : SweepObserve(s)
    \/ \E s \in Sweeps : SweepWrite(s)

SpecSweep == Init /\ [][NextSweep]_vars

\* C28: a health sweep sets an agent whose last sighting is older than the
\* staleness threshold offline without asking its adapter, and gives an
\* agent seen within the threshold the status its adapter reports.
C28_StaleOfflineFreshFromAdapter ==
    LET v == sweepLog.visit IN
    v.agent_id # "" =>
        /\ v.stale => (~v.invoked /\ v.status = "offline")
        /\ ~v.stale => /\ v.invoked
                       /\ v.status = IF v.observed = "raises" THEN "offline"
                                     ELSE v.observed

FallbacksWithSelected(agent_id, capability) ==
    LET others == FindByCapability(capability) IN
    [i \in 1..Len(others) |-> [agent_id |-> others[i].agent_id, priority |-> 1]]

\* _handle_route_preview, the fallback loop: one entry, in the order of
\* find_by_capability, for every agent found whose id is not the selected one
Fallbacks(agent_id, capability) ==
    LET others == SelectSeq(FindByCapability(capability),
                            LAMBDA m : m.agent_id # agent_id)
    IN
    [i \in 1..Len(others) |-> [agent_id |-> others[i].agent_id, priority |-> 1]]

\* fabric.route.preview(agent_id, capability) with the valid token
RoutePreview(agent_id, capability) ==
    /\ LET args == [agent_id |-> agent_id, capability |-> capability]
           out == HandleRoutePreview(args)
       IN preview' = [agent_id |-> agent_id, capability |-> capability,
                      registry |-> agents, code |-> out.code, keys |-> out.keys,
                      fallbacks |-> IF out.kind = "result"
                                    THEN Fallbacks(agent_id, capability)
                                    ELSE << >>]
    /\ UNCHANGED << previewRest, registryVars, httpVars, busVars, gatewayVars,
                    toolVars >>

\* previews between registrations of both agents with every capability list
NextRoute ==
    \/ \E m \in {x \in AgentManifest : x.status = "online"} : Register(m, "mcp")
    \/ \E a \in AgentIds \cup {""}, c \in CapNames \cup {""} : RoutePreview(a, c)

SpecRoute == Init /\ [][NextRoute]_vars

\* C30: the fallback list of fabric.route.preview(agent_id, capability) is
\* exactly the agents registered at that moment, other than agent_id, that
\* advertise the capability: each of them once, the selected agent never,
\* and no agent that lacks the capability; each entry has priority 1.
C30_FallbacksAreTheOtherAgentsWithCapability ==
    "fallbacks" \in preview.keys =>
        LET ids == [i \in 1..Len(preview.fallbacks) |->
                       preview.fallbacks[i].agent_id]
        IN
        /\ \A i, j \in 1..Len(ids) : ids[i] = ids[j] => i = j
        /\ Range(ids) = {a \in DOMAIN preview.registry :
                            /\ a # preview.agent_id
                            /\ preview.capability \in
                                  CapNamesOf(preview.registry[a])}
        /\ \A i \in 1..Len(ids) : preview.fallbacks[i].priority = 1

\* a preview for alpha while alpha and beta both advertise the capability:
\* beta is the one fallback
C30_Witness ==
    /\ preview.agent_id = "alpha"
    /\ preview.capability = "reason"
    /\ "alpha" \in DOMAIN preview.registry
    /\ "reason" \in CapNamesOf(preview.registry["alpha"])
    /\ Len(preview.fallbacks) = 1
    /\ preview.fallbacks[1].agent_id = "beta"

(***************************************************************************)
(* fabric.route.preview: the order of the fallback list                    *)
(***************************************************************************)
\* agent ids in lexicographic order
RoutingIds == <<"alpha", "beta", "gamma">>

\* manifests registered in SpecRouting: all advertise "reason"
RoutingManifests ==
    [agent_id : Range(RoutingIds), capability : {"reason"},
     tags : {{}, {"nlp"}}, trust_tier : {"local", "public"}]

\* self.agents[manifest.agent_id] = manifest on a dict that keeps insertion
\* order: a known key keeps its place, a new key goes last
RegisterOrdered(manifest) ==
    /\ routing' =
         [routing EXCEPT !.agents =
            IF \E i \in 1..Len(@) : @[i].agent_id = manifest.agent_id
            THEN [i \in 1..Len(@) |->
                     IF @[i].agent_id = manifest.agent_id THEN manifest
                     ELSE @[i]]
            ELSE Append(@, manifest)]
    /\ UNCHANGED << earlyVars, routingRest >>

\* _handle_route_preview(agent_id, "reason") for a registered agent: the
\* fallbacks are appended in the order find_by_capability returns, which is
\* the order of self.agents.values(); tags and trust tier are not read
RoutePreviewOrdered(agent_id) ==
    /\ \E i \in 1..Len(routing.agents) : routing.agents[i].agent_id = agent_id
    /\ routing' =
         [routing EXCEPT
            !.selected = CHOOSE m \in Range(routing.agents) :
                             m.agent_id = agent_id,
            !.fallbacks = SelectSeq(SelectSeq(routing.agents,
                                        LAMBDA m : m.capability = "reason"),
                                    LAMBDA m : m.agent_id # agent_id)]
    /\ UNCHANGED << earlyVars, routingRest >>

NextRouting ==
    \/ \E m \in RoutingManifests : RegisterOrdered(m)
    \/ \E a \in Range(RoutingIds) : RoutePreviewOrdered(a)

SpecRouting == Init /\ [][NextRouting]_vars

\* position of a fallback in the stated order: agents sharing a tag with the
\* selected agent first, then local before public, then by id
RoutingRank(m) ==
    LET id == CHOOSE i \in 1..Len(RoutingIds) : RoutingIds[i] = m.agent_id
    IN (IF m.tags \cap routing.selected.tags # {} THEN 0 ELSE 100)
       + (IF m.trust_tier = "local" THEN 0 ELSE 10) + id

\* C31: the fallback list is in an order that does not depend on the order
\* of registration: agents with matching tags first, then by trust tier
\* (local before org before public), then lexicographically by agent id.
C31_FallbacksInStatedOrder ==
    \A i, j \in 1..Len(routing.fallbacks) :
        i < j => RoutingRank(routing.fallbacks[i]) < RoutingRank(routing.fallbacks[j])

(***************************************************************************)
(* The event stream as a channel (server.py 663-665)                       *)
(***************************************************************************)
\* C32: the streaming channel is order-preserving and lossless: at every
\* moment of a stream the k-th frame sent to the HTTP client is the frame of
\* the k-th event the adapter's call_stream yielded, so nothing is dropped,
\* duplicated, batched or reordered, and a stream that has ended has carried
\* one frame per event.
C32_FramesAreTheEventsInOrder ==
    stream.state \in {"streaming", "done"} =>
        /\ Len(stream.frames) <= Len(stream.events)
        /\ \A k \in 1..Len(stream.frames) :
              stream.frames[k] = Frame(stream.events[k])
        /\ stream.state = "done" => Len(stream.frames) = Len(stream.events)

\* a RuntimeMCP stream in flight: the progress event has just been relayed as
\* the fifth frame, two events are still to come
C32_Witness ==
    /\ stream.state = "streaming"
    /\ stream.events = RuntimeMCPEvents(stream.trace_id)
    /\ Len(stream.frames) = 5
    /\ stream.frames[5].data.event = "progress"

(***************************************************************************)
(* Call logging (database/postgres_registry.py 307-347)                    *)
(***************************************************************************)
MaxCallLogs == 2

\* CallLog rows: (trace_id, span_id) is indexed, not unique
CallLogRow(trace_id, span_id, status) ==
    [trace_id |-> trace_id, span_id |-> span_id, status |-> status]

\* session.query(CallLog).filter(trace_id ==, span_id ==)
CallLogsOf(rows, trace_id, span_id) ==
    SelectSeq(rows, LAMBDA r : r.trace_id = trace_id /\ r.span_id = span_id)

\* PostgresRegistry.log_call_start: one more row, status "started"
LogCallStart(trace_id, span_id) ==
    /\ Len(callLog.rows) < MaxCallLogs
    /\ callLog' = [callLog EXCEPT
                     !.rows = Append(@, CallLogRow(trace_id, span_id, "started"))]
    /\ UNCHANGED << earlyVars, callLogRest >>

\* PostgresRegistry.log_call_end: the first row of the trace and span gets
\* its final status; nothing happens when there is none
LogCallEnd(trace_id, span_id, error_code) ==
    /\ callLog' =
        [callLog EXCEPT
           !.rows =
              IF \E i \in 1..Len(@) :
                    @[i].trace_id = trace_id /\ @[i].span_id = span_id
              THEN LET first == CHOOSE i \in 1..Len(@) :
                            /\ @[i].trace_id = trace_id
                            /\ @[i].span_id = span_id
                            /\ \A j \in 1..(i - 1) :
                                  ~(@[j].trace_id = trace_id
                                    /\ @[j].span_id = span_id)
                   IN [@ EXCEPT ![first].status =
                            IF error_code # "" THEN "failed" ELSE "completed"]
              ELSE @]
    /\ UNCHANGED << earlyVars, callLogRest >>

\* mcp_call for a non-streamed fabric.call: handle_tool_call builds the
\* trace, checks the token and runs _handle_call; no statement on the way
\* touches call_logs. On return the rows of the call's trace are read.
McpCallLogged(req) ==
    /\ ~req.stream
    /\ req.name = "fabric.call"
    /\ uuids + 2 <= MaxUuids
    /\ LET r == HandleToolCallFull(req, uuids) IN
        /\ reply' = [r EXCEPT !.registry_changed = FALSE]
        /\ uuids' = uuids + Cardinality(r.fresh)
        /\ callLog' =
            [callLog EXCEPT
               !.returned =
                  [authenticated |-> VerifyPsk(req.token) = "",
                   trace_id |-> r.trace.trace_id,
                   span_id |-> r.trace.span_id,
                   rows |-> CallLogsOf(callLog.rows, r.trace.trace_id,
                                       r.trace.span_id)]]
    /\ UNCHANGED << registryVars, httpVars, busVars, toolVars, busOp,
                    listeners, sdkStream, dispatchView, sweepVars, preview,
                    callLogRest >>

\* fabric.call requests of SpecCallLog
CallLogRequests ==
    {[BaseRequest EXCEPT !.token = t, !.agent_id = a, !.trace_id = i] :
        t \in {Psk, ""}, a \in {"alpha", "beta"}, i \in {"", "t1"}}

NextCallLog ==
    \/ \E m \in GatewayManifests : Register(m, "mcp")
    \/ \E req \in CallLogRequests : McpCallLogged(req)
    \/ \E s \in {"s1", "s2"} : LogCallStart("t1", s)
    \/ \E s \in {"s1", "s2"}, e \in {"", "TIMEOUT"} : LogCallEnd("t1", s, e)

SpecCallLog == Init /\ [][NextCallLog]_vars

\* C33: when an authenticated fabric.call has returned, call_logs holds
\* exactly one record keyed by the call's (trace_id, span_id), and its status
\* is completed or failed, not started.
C33_OneFinishedCallLogPerCall ==
    callLog.returned.authenticated =>
        /\ Len(callLog.returned.rows) = 1
        /\ callLog.returned.rows[1].status \in {"completed", "failed"}

(***************************************************************************)
(* File tools (tools/builtin_tools.py 58-230, tools/plugins/builtin_io.py) *)
(***************************************************************************)
MaxPathLen == 2

\* components of the absolute paths handed to the file tools
PathNames == {"etc", "passwd", ".ssh", "notes", ".."}

FilePaths == UNION {[1..n -> PathNames] : n \in 1..MaxPathLen}

\* Path(path).resolve(): ".." steps out of the directory before it, and out
\* of the root into the root (symbolic links are left out)
RECURSIVE ResolveFrom(_, _)
ResolveFrom(done, rest) ==
    IF rest = << >> THEN done
    ELSE IF Head(rest) = ".."
         THEN ResolveFrom(IF done = << >> THEN << >>
                          ELSE SubSeq(done, 1, Len(done) - 1), Tail(rest))
    ELSE ResolveFrom(Append(done, Head(rest)), Tail(rest))

Resolve(path) == ResolveFrom(<< >>, path)

\* IOTools._is_restricted_path: any(r in str(path) for r in ['/etc/shadow',
\* '/etc/passwd', '.ssh', '.env']), on whole components
IsRestrictedPath(path) ==
    \/ \E i \in 1..Len(path) : path[i] \in {".ssh", ".env"}
    \/ \E i \in 1..(Len(path) - 1) :
          path[i] = "etc" /\ path[i + 1] \in {"shadow", "passwd"}

\* what a file tool answers: the ToolError code ("" when it returns a
\* result) and its file-system accesses after resolve(), in order
FileOutcome(code, accesses) == [code |-> code, accesses |-> accesses]

\* IOTools.read
IOToolsRead(path, exists) ==
    IF IsRestrictedPath(Resolve(path)) THEN FileOutcome("ACCESS_DENIED", << >>)
    ELSE IF ~exists THEN FileOutcome("FILE_NOT_FOUND", << "exists" >>)
    ELSE FileOutcome("", << "exists", "open" >>)

\* IOTools.write
IOToolsWrite(path, exists) ==
    IF IsRestrictedPath(Resolve(path)) THEN FileOutcome("ACCESS_DENIED", << >>)
    ELSE FileOutcome("", << "mkdir", "open" >>)

\* IOTools.list: no deny-list check
IOToolsList(path, exists) ==
    IF ~exists THEN FileOutcome("DIR_NOT_FOUND", << "exists" >>)
    ELSE FileOutcome("", << "exists", "iterdir" >>)

\* IOTools.search, iterated to its final event: no deny-list check
IOToolsSearch(path, exists) ==
    IF ~exists THEN FileOutcome("DIR_NOT_FOUND", << "exists" >>)
    ELSE FileOutcome("", << "exists", "rglob", "open" >>)

FileTools == {"read", "write", "list", "search"}

\* one call of a file tool on a path that exists or not
FileToolCall(tool, path, exists) ==
    /\ LET out == IF tool = "read" THEN IOToolsRead(path, exists)
                  ELSE IF tool = "write" THEN IOToolsWrite(path, exists)
                  ELSE IF tool = "list" THEN IOToolsList(path, exists)
                  ELSE IOToolsSearch(path, exists)
       IN fileCall' = [tool |-> tool, path |-> path, code |-> out.code,
                       accesses |-> out.accesses]
    /\ UNCHANGED << earlyVars, fileCallRest >>

NextFiles ==
    \E tool \in FileTools, path \in FilePaths, exists \in BOOLEAN :
        FileToolCall(tool, path, exists)

SpecFiles == Init /\ [][NextFiles]_vars

\* C34: every file tool (read, write, list, search) answers a path that
\* contains a deny-listed fragment with ACCESS_DENIED, before any
\* file-system access.
C34_DenyListedPathIsRejected ==
    fileCall.tool # "" /\ IsRestrictedPath(fileCall.path) =>
        /\ fileCall.code = "ACCESS_DENIED"
        /\ fileCall.accesses = << >>

(***************************************************************************)
(* Plugin tools behind fabric.tool.call (server.py 777-803)                *)
(***************************************************************************)
\* C35: a plugin tool registered at discovery time is callable through
\* fabric.tool.call with a capability it declares: the call is not answered
\* INTERNAL_ERROR or with a not-found code, and the method run is the one
\* the tool's CAPABILITIES entry names.
C35_RegisteredPluginToolIsCallable ==
    /\ Answered
    /\ reply.outcome = "returned"
    /\ ~reply.req.stream
    /\ reply.req.token = Psk
    /\ reply.req.name = "fabric.tool.call"
    /\ reply.req.tool_id \in DOMAIN toolRegistry
    /\ reply.req.capability \in
          DOMAIN toolRegistry[reply.req.tool_id].capabilities
    => /\ reply.code \notin {"INTERNAL_ERROR", "TOOL_NOT_FOUND",
                             "CAPABILITY_NOT_FOUND"}
       /\ reply.calls =
            {reply.req.tool_id \o ":" \o
               toolRegistry[reply.req.tool_id].capabilities[
                   reply.req.capability]}

(***************************************************************************)
(* Promotion to an event stream (server.py 937-958)                        *)
(***************************************************************************)
\* C36: a request with stream=true whose operation name is not fabric.call
\* is dispatched by its name, as it is without stream: the handler of the
\* name answers, the response is not an event stream and adapter.call_stream
\* is not reached; an event stream is opened only for fabric.call.
C36_OnlyFabricCallIsPromoted ==
    /\ Answered
    /\ reply.req.token = Psk
    /\ reply.req.stream
    => /\ reply.req.name # "fabric.call" =>
             /\ reply.outcome = "returned"
             /\ reply.handler = Route(reply.req).handler
             /\ "call_stream" \notin reply.calls
       /\ reply.outcome = "stream" => reply.req.name = "fabric.call"

(***************************************************************************)
(* Scope of pub/sub subscriptions (fabric_message_bus.py 348-396, 426-430) *)
(***************************************************************************)
MaxSubscribes == 2

MaxCallbacks == 2

\* a pub/sub connection: subscribed at the server or not; closed or not
OpenConn == [subscribed |-> TRUE, closed |-> FALSE]

\* a listener task: the connection whose listen() it iterates (0 until the
\* task has run for the first time) and the callbacks it has made
NewTask == [conn |-> 0, callbacks |-> 0]

\* subscribe(): self._pubsub is replaced by a new connection, which is
\* subscribed; a listener task is created, its handle is not kept
BusSubscribe ==
    /\ Len(subs.conns) < MaxSubscribes
    /\ subs' = [subs EXCEPT
                  !.conns = Append(@, OpenConn),
                  !.pubsub = Len(subs.conns) + 1,
                  !.subscribed = TRUE,
                  !.tasks = Append(@, NewTask),
                  !.released = FALSE]
    /\ UNCHANGED << earlyVars, subsRest >>

\* _listen_loop runs for the first time: self._pubsub.listen() is evaluated
\* now, on whatever connection self._pubsub is at this moment
ListenLoopStart(t) ==
    /\ t \in 1..Len(subs.tasks)
    /\ subs.tasks[t].conn = 0
    /\ subs' = [subs EXCEPT !.tasks[t].conn = subs.pubsub]
    /\ UNCHANGED << earlyVars, subsRest >>

\* a message published on the topic reaches a listener task through a
\* connection that is subscribed: the task invokes its callback
ListenLoopCallback(t) ==
    /\ t \in 1..Len(subs.tasks)
    /\ subs.tasks[t].conn # 0
    /\ subs.conns[subs.tasks[t].conn].subscribed
    /\ ~subs.conns[subs.tasks[t].conn].closed
    /\ subs.tasks[t].callbacks < MaxCallbacks
    /\ subs' = [subs EXCEPT !.tasks[t].callbacks = @ + 1,
                            !.late = @ \/ subs.released]
    /\ UNCHANGED << earlyVars, subsRest >>

\* the effect of unsubscribe() on the bus: only the connection self._pubsub
\* holds is unsubscribed and closed
AfterUnsubscribe(b) ==
    IF b.pubsub # 0
    THEN [b EXCEPT !.conns[b.pubsub] = [subscribed |-> FALSE, closed |-> TRUE],
                   !.subscribed = FALSE]
    ELSE b

\* unsubscribe() returns
BusUnsubscribe ==
    /\ subs' = [AfterUnsubscribe(subs) EXCEPT !.released = TRUE]
    /\ UNCHANGED << earlyVars, subsRest >>

\* close() returns: unsubscribe() when self._subscribed, then r.close() on
\* the command connection. A pub/sub connection that was taken from the
\* client's pool is dropped with it or stays subscribed (the client library
\* decides): either outcome.
BusClose(dropped) ==
    /\ LET b == IF subs.subscribed THEN AfterUnsubscribe(subs) ELSE subs IN
       subs' = [b EXCEPT
                  !.conns = [c \in 1..Len(b.conns) |->
                                IF dropped
                                THEN [subscribed |-> FALSE, closed |-> TRUE]
                                ELSE b.conns[c]],
                  !.released = TRUE]
    /\ UNCHANGED << earlyVars, subsRest >>

NextSubs ==
    \/ BusSubscribe
    \/ \E t \in 1..MaxSubscribes : ListenLoopStart(t)
    \/ \E t \in 1..MaxSubscribes : ListenLoopCallback(t)
    \/ BusUnsubscribe
    \/ \E dropped \in BOOLEAN : BusClose(dropped)

SpecSubs == Init /\ [][NextSubs]_vars

\* C37: after unsubscribe() or close() has returned, and until the next
\* subscribe(), every pub/sub subscription opened by earlier subscribe()
\* calls is released and no listener invokes a callback, also when
\* subscribe() was called more than once.
C37_SubscriptionsReleasedAfterUnsubscribe ==
    /\ subs.released =>
          \A c \in 1..Len(subs.conns) : ~subs.conns[c].subscribed
    /\ ~subs.late

(***************************************************************************)
(* aether_checkpoint: InfiniteExecutionLoop.run (loop.py 115-220) on the   *)
(* CheckpointEngine (engine.py)                                            *)
(***************************************************************************)
MaxStepsPerEpisode == 2

MaxEpisodes == 2

\* CheckpointEngine.should_checkpoint: the step count in fixed mode; the
\* step count or the token pressure in adaptive mode (the loop registers no
\* custom trigger)
ShouldCheckpoint(l) ==
    IF ~l.adaptive THEN l.steps >= l.steps_per_episode
    ELSE l.steps >= l.steps_per_episode \/ l.pressure

\* CheckpointEngine.record_tool_call with WorkingMemory.append: one more
\* entry; large marks an output that takes the token count over the
\* pressure threshold
RecordToolCall(l, large) ==
    [l EXCEPT !.steps = @ + 1, !.total_steps = @ + 1,
              !.pressure = @ \/ large]

\* InfiniteExecutionLoop(objective, model_decider, tool_executor,
\* steps_per_episode, max_episodes, adaptive)
LoopConstruct(objective, steps_per_episode, max_episodes, adaptive) ==
    /\ loop.pc = "new"
    /\ loop' = [loop EXCEPT !.pc = "inner", !.objective = objective,
                            !.steps_per_episode = steps_per_episode,
                            !.max_episodes = max_episodes,
                            !.adaptive = adaptive]
    /\ UNCHANGED << earlyVars, loopRest >>

\* one pass of the inner loop up to the tool call: model_decider raises (a
\* model_error entry is recorded and the episode ends), returns the final
\* answer (run returns success=True), or names a tool, with an input that
\* json.dumps can serialise or not
ModelDecides(decision) ==
    /\ loop.pc = "inner"
    /\ ~ShouldCheckpoint(loop)
    /\ loop' =
        IF decision = "raises"
        THEN [RecordToolCall(loop, FALSE) EXCEPT !.pc = "checkpoint"]
        ELSE IF decision = "final"
        THEN [loop EXCEPT !.pc = "returned", !.final = TRUE,
                          !.success = TRUE]
        ELSE [loop EXCEPT !.pc = "tool",
                          !.serialisable = (decision = "tool")]
    /\ UNCHANGED << earlyVars, loopRest >>

\* tool_executor returns or raises (the exception becomes the result), and
\* the result is recorded: WorkingMemory.append calls json.dumps(tool_input)
\* and raises TypeError on an input it cannot serialise; run does not catch
\* it
ToolExecutes(outcome) ==
    /\ loop.pc = "tool"
    /\ loop' =
        IF ~loop.serialisable
        THEN [loop EXCEPT !.pc = "raised", !.raised = "TypeError"]
        ELSE [RecordToolCall(loop, outcome = "large") EXCEPT !.pc = "inner"]
    /\ UNCHANGED << earlyVars, loopRest >>

\* the checkpoint cycle after the inner loop: run_checkpoint raises
\* ValueError without an objective; otherwise the working memory is
\* distilled and cleared, the checkpoint is appended to checkpoint_history,
\* and run returns success=False once max_episodes checkpoints were made
RunCheckpoint ==
    /\ \/ loop.pc = "checkpoint"
       \/ loop.pc = "inner" /\ ShouldCheckpoint(loop)
    /\ loop' =
        IF loop.objective = ""
        THEN [loop EXCEPT !.pc = "raised", !.raised = "ValueError"]
        ELSE LET made == loop.checkpoints + 1 IN
             [loop EXCEPT !.steps = 0, !.pressure = FALSE,
                          !.checkpoints = made,
                          !.pc = IF made >= loop.max_episodes
                                 THEN "returned" ELSE "inner"]
    /\ UNCHANGED << earlyVars, loopRest >>

ModelDecisions == {"raises", "final", "tool", "tool_unserialisable"}

ToolExecutions == {"ok", "raises", "large"}

NextLoop ==
    \/ \E o \in {"", "deploy"}, n \in 1..MaxStepsPerEpisode,
          e \in 1..MaxEpisodes, a \in BOOLEAN : LoopConstruct(o, n, e, a)
    \/ \E d \in ModelDecisions : ModelDecides(d)
    \/ \E o \in ToolExecutions : ToolExecutes(o)
    \/ RunCheckpoint

SpecLoop == Init /\ [][NextLoop]_vars

\* the coroutine proceeds whenever model_decider and tool_executor answer
FairSpecLoop == SpecLoop /\ WF_vars(NextLoop)

\* C38: InfiniteExecutionLoop.run ends only by returning a LoopResult,
\* whatever model_decider and tool_executor do: success=True exactly when the
\* model returned a final answer, and otherwise success=False after at most
\* max_episodes checkpoints.
C38_RunReturnsLoopResult ==
    /\ loop.pc # "raised"
    /\ loop.checkpoints <= loop.max_episodes
    /\ loop.pc = "returned" =>
          /\ loop.success <=> loop.final
          /\ ~loop.success => loop.checkpoints = loop.max_episodes

\* C38, termination alone: every run comes to an end, by a LoopResult or by
\* an exception that leaves run.
C38_RunEnds == <>(loop.pc \in {"returned", "raised"})

(***************************************************************************)
(* SDK: MessagingClient.start_listening in plain mode                      *)
(* (sdk/python/fabric_a2a/messaging.py 334-357)                            *)
(***************************************************************************)
MaxListenSends == 4

\* message types put into the inbox: "task" has a handler that returns,
\* "poison" has a handler that raises, "other" has no handler
ListenKinds == {"task", "poison", "other"}

\* self._handlers.get(msg.message_type)
HasHandler(kind) == kind \in {"task", "poison"}

\* a sender's XADD to agent:<id>:inbox
InboxArrives(kind) ==
    /\ listening.next <= MaxListenSends
    /\ listening' = [listening EXCEPT
                       !.inbox = Append(@, [id |-> listening.next,
                                            kind |-> kind]),
                       !.next = @ + 1]
    /\ UNCHANGED << earlyVars, listeningRest >>

\* one pass of the while loop: receive_messages(count=1) is XREAD from id
\* "0", the oldest entry of the inbox; its handler, when there is one, is
\* awaited and the entry is acknowledged (XDEL) after the handler returned;
\* without a handler, or when the handler raises, the entry stays
ListenIteration ==
    /\ listening.inbox # << >>
    /\ LET msg == Head(listening.inbox) IN
       listening' =
          IF ~HasHandler(msg.kind) THEN listening
          ELSE IF msg.kind = "poison"
          THEN [listening EXCEPT !.handled = @ \cup {msg.id}]
          ELSE [listening EXCEPT !.handled = @ \cup {msg.id},
                                 !.acknowledged = @ \cup {msg.id},
                                 !.inbox = Tail(@)]
    /\ UNCHANGED << earlyVars, listeningRest >>

NextListen ==
    \/ \E kind \in ListenKinds : InboxArrives(kind)
    \/ ListenIteration

SpecListen == Init /\ [][NextListen]_vars

\* while self._running the loop goes on to its next pass
FairSpecListen == SpecListen /\ WF_vars(ListenIteration)

\* the inbox holds entry i and its message type has a handler that returns
Deliverable(i) ==
    \E k \in 1..Len(listening.inbox) :
        listening.inbox[k].id = i /\ listening.inbox[k].kind = "task"

\* C39: while start_listening runs in plain mode, every inbox message whose
\* message_type has a registered handler is eventually passed to that
\* handler and acknowledged, also when an earlier message has no handler or
\* its handler raises.
C39_HandledMessagesEventuallyAcknowledged ==
    \A i \in 1..MaxListenSends :
        Deliverable(i) ~>
            (i \in listening.handled /\ i \in listening.acknowledged)

(***************************************************************************)
(* stdio transport (server.py 972-1005)                                    *)
(***************************************************************************)
\* what stdio_server prints for one request line: the dictionary
\* handle_tool_call returned, or {ok: False, error: {code: INTERNAL_ERROR,
\* message}} when anything raised
StdioPrinted(r) ==
    IF r.outcome = "raised"
    THEN [r EXCEPT !.outcome = "returned", !.keys = {"ok", "error"},
                   !.ok = "false", !.code = "INTERNAL_ERROR",
                   !.error_keys = {"code", "message"}]
    ELSE r

\* one well-formed line {"name": ..., "arguments": ...} on stdin:
\* fabric.handle_tool_call(tool_name, arguments) is called without
\* auth_token. Recorded beside it: what POST /mcp/call answers to the same
\* name and arguments, sent with the shared key, in the same server state.
StdioRequest(req) ==
    /\ ~req.stream
    /\ req.token = Psk
    /\ uuids + 2 <= MaxUuids
    /\ LET r == HandleToolCallFull([req EXCEPT !.token = ""], uuids)
           h == HandleToolCallFull(req, uuids)
           swept == IF "health" \in r.calls
                    THEN UpdateHealthStatusOf(agents, adapters)
                    ELSE agents
       IN
        /\ agents' = swept
        /\ uuids' = uuids + Cardinality(r.fresh)
        /\ stdio' = [sent |-> TRUE,
                     result |-> [StdioPrinted(r) EXCEPT !.req = req],
                     http |-> h]
    /\ UNCHANGED << adapters, pgVars, lastReg, httpVars, busVars, toolVars,
                    reply, busOp, listeners, sdkStream, dispatchView,
                    sweepVars, preview, stdioRest >>

StdioRequests == {req \in GatewayRequests : ~req.stream /\ req.token = Psk}

NextStdio ==
    \/ \E m \in GatewayManifests, k \in GatewayAdapters : Register(m, k)
    \/ \E req \in StdioRequests : StdioRequest(req)

SpecStdio == Init /\ [][NextStdio]_vars

\* C40: the stdio transport dispatches like POST /mcp/call: on a server
\* started with a preshared key, the same name and arguments get the same
\* result (ok, error code, handler reached, adapter and tool calls) on both
\* transports, and a well-formed stdio request reaches the handler of its
\* operation name.
C40_StdioAnswersLikeHttp ==
    stdio.sent =>
        /\ stdio.result.ok = stdio.http.ok
        /\ stdio.result.code = stdio.http.code
        /\ stdio.result.handler = stdio.http.handler
        /\ stdio.result.calls = stdio.http.calls
        /\ stdio.result.handler = Route(stdio.result.req).handler
====
